---- MODULE Spec2Model ----
(***************************************************************************)
(* Model of the tenant-scoped inventory layer: the storage back-end        *)
(* (DatabaseStorage, the implementation exported as `storage`) and the     *)
(* HTTP handlers of server/routes.ts that call it.                         *)
(*                                                                         *)
(* Ids are positive integers (serial columns); 0 stands for an absent id.  *)
(* Strings that the code manipulates character by character (asset-id      *)
(* patterns, asset ids) are sequences of one-character strings; << >> is   *)
(* an absent asset id and "" an absent name.                               *)
(***************************************************************************)
EXTENDS Integers, Sequences, FiniteSets

VARIABLES
    db,   \* the database, one field per table:
          \*   companies        id -> [assetIdPattern, currentAssetId]
          \*   departments      id -> [companyId, name, assetCount, capacityUsed]
          \*   userDepartments  set of [userId, departmentId]
          \*   inventoryItems   live id -> [companyId, departmentId, assetId, name]
          \*   itemSeq          serial sequence of inventory_items.id (last id handed out)
          \*   activityLogs     rows in insertion order
    reqs, \* the POST /api/inventory requests in flight, one slot per concurrent
          \* request: where the handler stands and the locals it holds
    mem   \* the maps and id counters of a MemStorage instance, laid out as db is

vars == <<db, reqs, mem>>

-----------------------------------------------------------------------------
(* Bounds of the model *)

MaxDepartments == 3   \* departments rows
MaxItems == 2         \* inventory_items rows ever inserted
MaxLogs == 2          \* activity_logs rows, when item updates are among the requests
MaxHistory == 4       \* activity_logs rows, when they are not
MaxRequests == 2      \* concurrent requests
MaxCounter == 4       \* currentAssetId, when creations fail after the counter update
MaxFailureItems == 1  \* inventory_items rows ever inserted, in the runs in which calls throw
MaxActivity == 12     \* activity_logs rows, when nothing else is written

-----------------------------------------------------------------------------
(* Identity context: the users the authentication collaborator resolves.   *)
(* User 1 is the admin of company 1, user 2 an employee of company 1, user *)
(* 3 the admin of company 2.                                               *)

Users ==
    << [id |-> 1, companyId |-> 1, role |-> "admin"],
       [id |-> 2, companyId |-> 1, role |-> "employee"],
       [id |-> 3, companyId |-> 2, role |-> "admin"] >>

UserIds == 1..Len(Users)

CompanyIds == {Users[u].companyId : u \in UserIds}

\* createCompany's default pattern, "A-####", shortened to two placeholders
DefaultPattern == <<"A", "-", "#", "#">>

\* a pattern with no placeholder run
LiteralPattern == <<"I", "T">>

\* the patterns a company may have set: createCompany's default "A-####" in
\* full, one with no placeholder run, one with the run first, one with two runs
Patterns ==
    { <<"A", "-", "#", "#", "#", "#">>,
      <<"I", "T", "E", "M">>,
      <<"#", "#", "-", "B">>,
      <<"#", "-", "#", "#">> }

\* values of a company's currentAssetId: one that is padded, the last that
\* fits four places, one that fits none of the runs
Counters == {7, 9999, 12345}

-----------------------------------------------------------------------------
(* String helpers of generateAssetId *)

DigitChars == <<"0", "1", "2", "3", "4", "5", "6", "7", "8", "9">>

\* Number.prototype.toString() of a non-negative integer
RECURSIVE NumberToString(_)
NumberToString(n) ==
    IF n < 10 THEN <<DigitChars[n + 1]>>
    ELSE NumberToString(n \div 10) \o <<DigitChars[(n % 10) + 1]>>

\* (mutant) the string is cut to targetLength
RECURSIVE PadStart_Truncating(_, _)
PadStart_Truncating(s, targetLength) ==
    IF Len(s) >= targetLength THEN SubSeq(s, Len(s) - targetLength + 1, Len(s))
    ELSE PadStart_Truncating(<<"0">> \o s, targetLength)

\* String.prototype.padStart(targetLength, "0")
RECURSIVE PadStart(_, _)
PadStart(s, targetLength) ==
    IF Len(s) >= targetLength THEN s ELSE PadStart(<<"0">> \o s, targetLength)

\* Length of the run of '#' of pattern p that starts at position i
RECURSIVE RunLength(_, _)
RunLength(p, i) ==
    IF i > Len(p) \/ p[i] # "#" THEN 0 ELSE 1 + RunLength(p, i + 1)

\* (mutant) the regular expression without the g flag: the first run only
RECURSIVE ReplaceRuns_FirstOnly(_, _, _)
ReplaceRuns_FirstOnly(p, i, currentId) ==
    IF i > Len(p) THEN << >>
    ELSE IF p[i] = "#"
         THEN PadStart(NumberToString(currentId), RunLength(p, i))
                  \o SubSeq(p, i + RunLength(p, i), Len(p))
         ELSE <<p[i]>> \o ReplaceRuns_FirstOnly(p, i + 1, currentId)

\* pattern.replace(/#+/g, match => currentId.toString().padStart(match.length, '0'))
\* applied to the suffix of p that starts at position i
RECURSIVE ReplaceRuns(_, _, _)
ReplaceRuns(p, i, currentId) ==
    IF i > Len(p) THEN << >>
    ELSE IF p[i] = "#"
         THEN PadStart(NumberToString(currentId), RunLength(p, i))
                  \o ReplaceRuns(p, i + RunLength(p, i), currentId)
         ELSE <<p[i]>> \o ReplaceRuns(p, i + 1, currentId)

RenderAssetId(pattern, currentId) == ReplaceRuns(pattern, 1, currentId)

-----------------------------------------------------------------------------
(* Helpers *)

\* f with key k set to v (k may be new)
Put(f, k, v) == [x \in DOMAIN f \cup {k} |-> IF x = k THEN v ELSE f[x]]

\* f without key k
Drop(f, k) == [x \in DOMAIN f \ {k} |-> f[x]]

Max(a, b) == IF a >= b THEN a ELSE b

-----------------------------------------------------------------------------
(* DatabaseStorage *)

\* createDepartment: the row is inserted with both counters forced to 0
createDepartment(st, departmentData) ==
    [st EXCEPT !.departments =
        Append(st.departments,
               [ companyId |-> departmentData.companyId,
                 name |-> departmentData.name,
                 assetCount |-> 0,
                 capacityUsed |-> 0 ])]

\* createCompany: the company row with currentAssetId 1, then its default
\* "General" department
createCompany(st, companyData) ==
    LET withCompany ==
            [st EXCEPT !.companies =
                Append(st.companies,
                       [ assetIdPattern |-> companyData.assetIdPattern,
                         currentAssetId |-> 1 ])]
    IN createDepartment(withCompany,
                        [name |-> "General", companyId |-> Len(withCompany.companies)])

\* getDepartment: the row with that id, whatever company owns it
HasDepartment(st, id) == id \in DOMAIN st.departments

\* updateDepartment with the two counters as data
updateDepartment(st, id, assetCount, capacityUsed) ==
    [st EXCEPT !.departments[id].assetCount = assetCount,
               !.departments[id].capacityUsed = capacityUsed]

\* assignUserToDepartment
assignUserToDepartment(st, data) ==
    [st EXCEPT !.userDepartments = @ \cup {data}]

\* (mutant) any membership of the user counts
HasDepartmentAccess_AnyDepartment(st, userId, departmentId) ==
    \E ud \in st.userDepartments : ud.userId = userId

\* getUserDepartments(userId).some(ud => ud.departmentId === departmentId)
HasDepartmentAccess(st, userId, departmentId) ==
    [userId |-> userId, departmentId |-> departmentId] \in st.userDepartments

\* generateAssetId: the asset id rendered from the company's current counter
generateAssetIdValue(st, companyId) ==
    RenderAssetId(st.companies[companyId].assetIdPattern,
                  st.companies[companyId].currentAssetId)

\* generateAssetId: the counter update that follows, computed from the
\* counter value currentId that was read
generateAssetIdWrite(st, companyId, currentId) ==
    [st EXCEPT !.companies[companyId].currentAssetId = currentId + 1]

\* (mutant) the counter is left as it was
generateAssetIdUpdate_NoIncrement(st, companyId) == st

\* generateAssetId, read and update together
generateAssetIdUpdate(st, companyId) ==
    generateAssetIdWrite(st, companyId, st.companies[companyId].currentAssetId)

\* the accounting write of createInventoryItem, computed from the counters
\* that were read
createAccountingWrite(st, departmentId, assetCount, capacityUsed) ==
    updateDepartment(st, departmentId, assetCount + 1, capacityUsed + 10)

\* (mutant) with no department row, the company's first department is charged
createAccounting_ChargesAnother(st, departmentId) ==
    IF HasDepartment(st, departmentId)
    THEN createAccountingWrite(st, departmentId,
                               st.departments[departmentId].assetCount,
                               st.departments[departmentId].capacityUsed)
    ELSE createAccountingWrite(st, 1, st.departments[1].assetCount,
                               st.departments[1].capacityUsed)

\* the accounting step of createInventoryItem, read and write together
createAccounting(st, departmentId) ==
    IF HasDepartment(st, departmentId)
    THEN createAccountingWrite(st, departmentId,
                               st.departments[departmentId].assetCount,
                               st.departments[departmentId].capacityUsed)
    ELSE st

\* the INSERT of createInventoryItem: the next serial id, the row
insertInventoryItem(st, itemData, assetId) ==
    [st EXCEPT !.itemSeq = @ + 1,
               !.inventoryItems =
                   Put(@, st.itemSeq + 1,
                       [ companyId |-> itemData.companyId,
                         departmentId |-> itemData.departmentId,
                         assetId |-> assetId,
                         name |-> itemData.name ])]

\* createInventoryItem: asset id, row insert, accounting
createInventoryItem(st, itemData) ==
    LET assetId == generateAssetIdValue(st, itemData.companyId)
        st1 == generateAssetIdUpdate(st, itemData.companyId)
        st2 == insertInventoryItem(st1, itemData, assetId)
    IN createAccounting(st2, itemData.departmentId)

\* getInventoryItem
HasInventoryItem(st, id) == id \in DOMAIN st.inventoryItems

\* the merge of updateInventoryItem: the fields present in data replace the row's
MergeItem(item, data) ==
    [ companyId |-> IF data.companyId # 0 THEN data.companyId ELSE item.companyId,
      departmentId |-> IF data.departmentId # 0 THEN data.departmentId
                       ELSE item.departmentId,
      assetId |-> IF data.assetId # << >> THEN data.assetId ELSE item.assetId,
      name |-> IF data.name # "" THEN data.name ELSE item.name ]

\* updateInventoryItem (the row exists): UPDATE ... SET data WHERE id
updateInventoryItem(st, id, data) ==
    [st EXCEPT !.inventoryItems[id] = MergeItem(@, data)]

\* (mutant) the department is left as it was
deleteAccounting_NoDecrement(st, departmentId) == st

\* the accounting step of deleteInventoryItem
deleteAccounting(st, departmentId) ==
    IF HasDepartment(st, departmentId)
    THEN updateDepartment(st, departmentId,
                          Max(0, st.departments[departmentId].assetCount - 1),
                          Max(0, st.departments[departmentId].capacityUsed - 10))
    ELSE st

\* deleteInventoryItem (the row exists): accounting, then DELETE
deleteInventoryItem(st, id) ==
    LET st1 == deleteAccounting(st, st.inventoryItems[id].departmentId)
    IN [st1 EXCEPT !.inventoryItems = Drop(@, id)]

\* (mutant) the row is not inserted
createActivityLog_Dropped(st, logData) == st

\* (mutant) the row replaces the rows written before
createActivityLog_Replace(st, logData) == [st EXCEPT !.activityLogs = <<logData>>]

\* createActivityLog
createActivityLog(st, logData) ==
    [st EXCEPT !.activityLogs = Append(@, logData)]

\* (await storage.getDepartment(id))?.name || "Unknown"
DepartmentNameOrUnknown(st, departmentId) ==
    IF HasDepartment(st, departmentId)
    THEN st.departments[departmentId].name
    ELSE "Unknown"

\* getDepartmentsByCompany
getDepartmentsByCompany(st, companyId) ==
    {d \in DOMAIN st.departments : st.departments[d].companyId = companyId}

\* (mutant) the WHERE clause is missing
getInventoryItemsByCompany_All(st, companyId) == DOMAIN st.inventoryItems

\* getInventoryItemsByCompany
getInventoryItemsByCompany(st, companyId) ==
    {i \in DOMAIN st.inventoryItems : st.inventoryItems[i].companyId = companyId}

\* the rows of s that belong to companyId, newest (last inserted) first
RECURSIVE NewestFirst(_, _)
NewestFirst(s, companyId) ==
    IF s = << >> THEN << >>
    ELSE LET last == s[Len(s)]
             rest == NewestFirst(SubSeq(s, 1, Len(s) - 1), companyId)
         IN IF last.companyId = companyId THEN <<last>> \o rest ELSE rest

\* the rows of s that belong to companyId, oldest first
OldestFirst(s, companyId) == SelectSeq(s, LAMBDA row : row.companyId = companyId)

\* (mutant) ORDER BY createdAt, ascending
getActivityLogsByCompany_Ascending(st, companyId, limit) ==
    LET rows == OldestFirst(st.activityLogs, companyId)
    IN SubSeq(rows, 1, IF Len(rows) < limit THEN Len(rows) ELSE limit)

\* getActivityLogsByCompany: WHERE companyId ORDER BY createdAt DESC LIMIT limit
getActivityLogsByCompany(st, companyId, limit) ==
    LET rows == NewestFirst(st.activityLogs, companyId)
    IN SubSeq(rows, 1, IF Len(rows) < limit THEN Len(rows) ELSE limit)

-----------------------------------------------------------------------------
(* The storage calls as IStorage offers them, on any id: what the call     *)
(* throws (the empty error: it returns), the row it returns, and the store *)
(* it leaves                                                               *)

Outcome(error, result, st) == [error |-> error, result |-> result, st |-> st]

\* no row is returned
NoResult == [id |-> 0]

\* the item row of that id as the call returns it
ItemResult(st, id) == [id |-> id, row |-> st.inventoryItems[id]]

\* createCompany: the id of the row returned
createCompanyOutcome(st, companyData) ==
    LET st1 == createCompany(st, companyData)
    IN Outcome("", [id |-> Len(st1.companies)], st1)

\* createDepartment: the row returned
createDepartmentOutcome(st, departmentData) ==
    LET st1 == createDepartment(st, departmentData)
    IN Outcome("", [id |-> Len(st1.departments), row |-> st1.departments[Len(st1.departments)]],
               st1)

\* createInventoryItem: generateAssetId throws when the company has no row,
\* before anything is written
createInventoryItemOrThrow(st, itemData) ==
    IF itemData.companyId \notin DOMAIN st.companies
    THEN Outcome("Company not found", NoResult, st)
    ELSE LET st1 == createInventoryItem(st, itemData)
         IN Outcome("", ItemResult(st1, st1.itemSeq), st1)

\* (mutant) with no row of that id, the data is stored as a new row
updateInventoryItemOrThrow_Upsert(st, id, data) ==
    IF ~HasInventoryItem(st, id)
    THEN LET st1 == [st EXCEPT !.inventoryItems =
                        Put(@, id, [ companyId |-> data.companyId,
                                     departmentId |-> data.departmentId,
                                     assetId |-> data.assetId,
                                     name |-> data.name ])]
         IN Outcome("", ItemResult(st1, id), st1)
    ELSE LET st1 == updateInventoryItem(st, id, data)
         IN Outcome("", ItemResult(st1, id), st1)

\* updateInventoryItem: no row returned by the UPDATE, the call throws
updateInventoryItemOrThrow(st, id, data) ==
    IF ~HasInventoryItem(st, id)
    THEN Outcome("Inventory item not found", NoResult, st)
    ELSE LET st1 == updateInventoryItem(st, id, data)
         IN Outcome("", ItemResult(st1, id), st1)

\* deleteInventoryItem: no row returned by getInventoryItem, the call throws
deleteInventoryItemOrThrow(st, id) ==
    IF ~HasInventoryItem(st, id)
    THEN Outcome("Inventory item not found", NoResult, st)
    ELSE Outcome("", NoResult, deleteInventoryItem(st, id))

\* createActivityLog: the id of the row returned
createActivityLogOutcome(st, logData) ==
    LET st1 == createActivityLog(st, logData)
    IN Outcome("", [id |-> Len(st1.activityLogs), row |-> logData], st1)

-----------------------------------------------------------------------------
(* MemStorage: the same calls on the maps. A map whose rows are never      *)
(* deleted is a sequence, its id counter one past its length; itemSeq is   *)
(* inventoryItemIdCounter - 1.                                             *)

\* MemStorage.createDepartment
Mem_createDepartment(st, departmentData) ==
    LET department == [ companyId |-> departmentData.companyId,
                        name |-> departmentData.name,
                        assetCount |-> 0,
                        capacityUsed |-> 0 ]
        st1 == [st EXCEPT !.departments = Append(@, department)]
    IN Outcome("", [id |-> Len(st1.departments), row |-> department], st1)

\* MemStorage.createCompany
Mem_createCompany(st, companyData) ==
    LET company == [ assetIdPattern |-> companyData.assetIdPattern,
                     currentAssetId |-> 1 ]
        st1 == [st EXCEPT !.companies = Append(@, company)]
        id == Len(st1.companies)
    IN Outcome("", [id |-> id],
               Mem_createDepartment(st1, [name |-> "General", companyId |-> id]).st)

\* MemStorage.updateDepartment (the row exists)
Mem_updateDepartment(st, id, assetCount, capacityUsed) ==
    [st EXCEPT !.departments[id] =
        [@ EXCEPT !.assetCount = assetCount, !.capacityUsed = capacityUsed]]

\* MemStorage.createInventoryItem: the id is taken from the counter, then
\* generateAssetId throws when the company has no row
Mem_createInventoryItem(st, itemData) ==
    LET id == st.itemSeq + 1
        st0 == [st EXCEPT !.itemSeq = id]
    IN IF itemData.companyId \notin DOMAIN st0.companies
       THEN Outcome("Company not found", NoResult, st0)
       ELSE LET company == st0.companies[itemData.companyId]
                assetId == RenderAssetId(company.assetIdPattern, company.currentAssetId)
                st1 == [st0 EXCEPT !.companies[itemData.companyId].currentAssetId =
                                       company.currentAssetId + 1]
                st2 == [st1 EXCEPT !.inventoryItems =
                           Put(@, id, [ companyId |-> itemData.companyId,
                                        departmentId |-> itemData.departmentId,
                                        assetId |-> assetId,
                                        name |-> itemData.name ])]
                st3 == IF itemData.departmentId \in DOMAIN st2.departments
                       THEN Mem_updateDepartment(st2, itemData.departmentId,
                                st2.departments[itemData.departmentId].assetCount + 1,
                                st2.departments[itemData.departmentId].capacityUsed + 10)
                       ELSE st2
            IN Outcome("", ItemResult(st3, id), st3)

\* MemStorage.updateInventoryItem: { ...item, ...data }
Mem_updateInventoryItem(st, id, data) ==
    IF id \notin DOMAIN st.inventoryItems
    THEN Outcome("Inventory item not found", NoResult, st)
    ELSE LET item == st.inventoryItems[id]
             updatedItem ==
                 [ companyId |-> IF data.companyId # 0 THEN data.companyId
                                 ELSE item.companyId,
                   departmentId |-> IF data.departmentId # 0 THEN data.departmentId
                                    ELSE item.departmentId,
                   assetId |-> IF data.assetId # << >> THEN data.assetId ELSE item.assetId,
                   name |-> IF data.name # "" THEN data.name ELSE item.name ]
             st1 == [st EXCEPT !.inventoryItems[id] = updatedItem]
         IN Outcome("", ItemResult(st1, id), st1)

\* MemStorage.deleteInventoryItem
Mem_deleteInventoryItem(st, id) ==
    IF id \notin DOMAIN st.inventoryItems
    THEN Outcome("Inventory item not found", NoResult, st)
    ELSE LET item == st.inventoryItems[id]
             st1 == IF item.departmentId \in DOMAIN st.departments
                    THEN Mem_updateDepartment(st, item.departmentId,
                             Max(0, st.departments[item.departmentId].assetCount - 1),
                             Max(0, st.departments[item.departmentId].capacityUsed - 10))
                    ELSE st
         IN Outcome("", NoResult, [st1 EXCEPT !.inventoryItems = Drop(@, id)])

\* MemStorage.createActivityLog
Mem_createActivityLog(st, logData) ==
    LET st1 == [st EXCEPT !.activityLogs = Append(@, logData)]
    IN Outcome("", [id |-> Len(st1.activityLogs), row |-> logData], st1)

\* the sequence s, last element first
RECURSIVE Reversed(_)
Reversed(s) == IF s = << >> THEN << >> ELSE <<s[Len(s)]>> \o Reversed(SubSeq(s, 1, Len(s) - 1))

\* MemStorage.getActivityLogsByCompany: filter, sort by createdAt descending,
\* slice(0, limit); createdAt grows with the id
Mem_getActivityLogsByCompany(st, companyId, limit) ==
    LET filtered == SelectSeq(st.activityLogs, LAMBDA log : log.companyId = companyId)
        sorted == Reversed(filtered)
    IN SubSeq(sorted, 1, IF limit < Len(sorted) THEN limit ELSE Len(sorted))

-----------------------------------------------------------------------------
(* Request validation (shared/schema.ts) *)

\* insertDepartmentSchema.parse: the name is required
InsertDepartmentSchemaOk(body) == body.name # ""

\* insertInventoryItemSchema.parse: the name is required
InsertInventoryItemSchemaOk(body) == body.name # ""

-----------------------------------------------------------------------------
(* Request inputs *)

\* bodies of POST /api/departments: a name and fields the handler overrides,
\* or no name
DepartmentBodies ==
    [ name : {"Ops"}, companyId : CompanyIds, assetCount : {5}, capacityUsed : {50} ]
    \cup [ name : {""}, companyId : {0}, assetCount : {0}, capacityUsed : {0} ]

\* bodies of POST /api/inventory: the department (0: none given; one past
\* the bound: a department that never exists), a name, and a company id,
\* which the handler overrides; or no name
CreateBodies ==
    [ departmentId : 0..(MaxDepartments + 1), name : {"n1"}, companyId : CompanyIds ]
    \cup [ departmentId : 1..MaxDepartments, name : {""}, companyId : {0} ]

NoFields == [departmentId |-> 0, companyId |-> 0, assetId |-> << >>, name |-> ""]

\* bodies of PUT /api/inventory/:id that move the item: no field, another
\* department, another company
MoveBodies ==
    {NoFields}
    \cup {[NoFields EXCEPT !.departmentId = d] : d \in 1..MaxDepartments}
    \cup {[NoFields EXCEPT !.companyId = c] : c \in CompanyIds}

\* bodies of PUT /api/inventory/:id with any of the row's columns: those that
\* move the item, a new name, a new asset id, or all at once
UpdateBodies ==
    MoveBodies
    \cup { [NoFields EXCEPT !.name = "n2"],
           [NoFields EXCEPT !.assetId = <<"X">>],
           [departmentId |-> 2, companyId |-> 2, assetId |-> <<"X">>, name |-> "n2"] }

\* ids a request may name: rows that exist, are not yet created, or are deleted
ItemIds == 1..MaxItems

-----------------------------------------------------------------------------
(* Handlers of server/routes.ts: the status and message they answer with   *)
(* and the store they leave                                                *)

Answer(status, message, st) == [status |-> status, message |-> message, st |-> st]

\* (mutant) the request's companyId is not overridden
DepartmentData_FromBody(user, body) ==
    [ name |-> body.name,
      companyId |-> body.companyId,
      assetCount |-> 0,
      capacityUsed |-> 0 ]

\* the row POST /api/departments hands to the storage
DepartmentData(user, body) ==
    [ name |-> body.name,
      companyId |-> user.companyId,
      assetCount |-> 0,
      capacityUsed |-> 0 ]

\* POST /api/departments
PostDepartments(st, user, body) ==
    IF user.role # "admin"
    THEN Answer(403, "Only admins can create departments", st)
    ELSE IF ~InsertDepartmentSchemaOk(body) THEN Answer(400, "ZodError", st)
    ELSE Answer(201, "", createDepartment(st, DepartmentData(user, body)))

\* the activity entry the item handlers write
LogEntry(action, itemId, item, departmentName, user) ==
    [ action |-> action,
      itemId |-> itemId,
      assetId |-> item.assetId,
      itemName |-> item.name,
      departmentName |-> departmentName,
      userId |-> user.id,
      companyId |-> user.companyId ]

\* the row POST /api/inventory hands to the storage
ItemData(user, body) ==
    [ companyId |-> user.companyId,
      departmentId |-> body.departmentId,
      name |-> body.name ]

\* POST /api/inventory: the checks made before the storage is written
\* (the empty message: the request passes)
PostInventoryRefusal(st, user, body) ==
    IF body.departmentId = 0 THEN Answer(400, "Department ID is required", st)
    ELSE IF user.role # "admin" /\ ~HasDepartmentAccess(st, user.id, body.departmentId)
    THEN Answer(403, "You don't have access to this department", st)
    ELSE IF ~InsertInventoryItemSchemaOk(body) THEN Answer(400, "ZodError", st)
    ELSE Answer(201, "", st)

\* (mutant) the body is validated after the row was created
PostInventory_ValidatesLate(st, user, body) ==
    IF body.departmentId = 0 THEN Answer(400, "Department ID is required", st)
    ELSE IF user.role # "admin" /\ ~HasDepartmentAccess(st, user.id, body.departmentId)
    THEN Answer(403, "You don't have access to this department", st)
    ELSE
      LET st1 == createInventoryItem(st, ItemData(user, body))
          id == st1.itemSeq
          item == st1.inventoryItems[id]
      IN IF ~InsertInventoryItemSchemaOk(body) THEN Answer(400, "ZodError", st1)
         ELSE Answer(201, "",
                createActivityLog(st1,
                    LogEntry("added", id, item,
                             DepartmentNameOrUnknown(st1, item.departmentId), user)))

\* POST /api/inventory
PostInventory(st, user, body) ==
    IF PostInventoryRefusal(st, user, body).message # ""
    THEN PostInventoryRefusal(st, user, body)
    ELSE
      LET st1 == createInventoryItem(st, ItemData(user, body))
          id == st1.itemSeq
          item == st1.inventoryItems[id]
      IN Answer(201, "",
                createActivityLog(st1,
                    LogEntry("added", id, item,
                             DepartmentNameOrUnknown(st1, item.departmentId), user)))

\* PUT /api/inventory/:id
PutInventory(st, user, itemId, body) ==
    IF ~HasInventoryItem(st, itemId) THEN Answer(404, "Item not found", st)
    ELSE IF st.inventoryItems[itemId].companyId # user.companyId
    THEN Answer(403, "Access denied", st)
    ELSE IF user.role # "admin"
            /\ ~HasDepartmentAccess(st, user.id, st.inventoryItems[itemId].departmentId)
    THEN Answer(403, "You don't have access to this department", st)
    ELSE
      LET st1 == updateInventoryItem(st, itemId, body)
          item == st1.inventoryItems[itemId]
      IN Answer(200, "",
                createActivityLog(st1,
                    LogEntry("updated", itemId, item,
                             DepartmentNameOrUnknown(st1, item.departmentId), user)))

\* (mutant) the admin check is missing
DeleteInventory_NoRoleCheck(st, user, itemId) ==
    IF ~HasInventoryItem(st, itemId) THEN Answer(404, "Item not found", st)
    ELSE IF st.inventoryItems[itemId].companyId # user.companyId
    THEN Answer(403, "Access denied", st)
    ELSE
      LET item == st.inventoryItems[itemId]
          departmentName == DepartmentNameOrUnknown(st, item.departmentId)
          st1 == deleteInventoryItem(st, itemId)
      IN Answer(200, "Item deleted successfully",
                createActivityLog(st1,
                    LogEntry("removed", itemId, item, departmentName, user)))

\* DELETE /api/inventory/:id
DeleteInventory(st, user, itemId) ==
    IF ~HasInventoryItem(st, itemId) THEN Answer(404, "Item not found", st)
    ELSE IF st.inventoryItems[itemId].companyId # user.companyId
    THEN Answer(403, "Access denied", st)
    ELSE IF user.role # "admin" THEN Answer(403, "Only admins can delete items", st)
    ELSE
      LET item == st.inventoryItems[itemId]
          departmentName == DepartmentNameOrUnknown(st, item.departmentId)
          st1 == deleteInventoryItem(st, itemId)
      IN Answer(200, "Item deleted successfully",
                createActivityLog(st1,
                    LogEntry("removed", itemId, item, departmentName, user)))

\* GET /api/company: the id of the company row returned
GetCompany(st, user) == user.companyId

\* GET /api/departments: the ids of the rows returned
GetDepartments(st, user) == getDepartmentsByCompany(st, user.companyId)

\* GET /api/inventory: the ids of the rows returned
GetInventory(st, user) == getInventoryItemsByCompany(st, user.companyId)

\* GET /api/activity without a limit in the query: the rows returned
GetActivity(st, user) == getActivityLogsByCompany(st, user.companyId, 10)

\* GET /api/dashboard: the rows the summary is computed from
GetDashboard(st, user) ==
    [ inventoryItems |-> getInventoryItemsByCompany(st, user.companyId),
      departments |-> getDepartmentsByCompany(st, user.companyId),
      recentActivity |-> getActivityLogsByCompany(st, user.companyId, 5) ]

-----------------------------------------------------------------------------
(* The state machine, one request handled at a time *)

EmptyStore ==
    [ companies |-> << >>, departments |-> << >>, userDepartments |-> {},
      inventoryItems |-> << >>, itemSeq |-> 0, activityLogs |-> << >> ]

Idle == [pc |-> "idle"]

\* The store once the two companies of the identity context have registered:
\* company 1 with the default pattern, company 2 with a pattern that has no
\* placeholder; no request is in flight; the MemStorage instance is not the
\* one exported as `storage` and stays as constructed
Init ==
    /\ db = createCompany(createCompany(EmptyStore, [assetIdPattern |-> DefaultPattern]),
                          [assetIdPattern |-> LiteralPattern])
    /\ reqs = [r \in 1..MaxRequests |-> Idle]
    /\ mem = EmptyStore

WithinBounds(st, maxLogs) ==
    /\ Len(st.departments) <= MaxDepartments
    /\ st.itemSeq <= MaxItems
    /\ Len(st.activityLogs) <= maxLogs

\* an employee without a department is given access to one of their company
AssignUserToDepartment ==
    /\ \E u \in UserIds, d \in DOMAIN db.departments :
        /\ Users[u].role = "employee"
        /\ db.departments[d].companyId = Users[u].companyId
        /\ \A ud \in db.userDepartments : ud.userId # u
        /\ db' = assignUserToDepartment(db, [userId |-> u, departmentId |-> d])
    /\ UNCHANGED <<reqs, mem>>

CreateDepartment ==
    /\ \E u \in UserIds, body \in DepartmentBodies :
        db' = PostDepartments(db, Users[u], body).st
    /\ WithinBounds(db', MaxHistory)
    /\ UNCHANGED <<reqs, mem>>

CreateItem(maxLogs) ==
    /\ \E u \in UserIds, body \in CreateBodies :
        db' = PostInventory(db, Users[u], body).st
    /\ WithinBounds(db', maxLogs)
    /\ UNCHANGED <<reqs, mem>>

UpdateItem ==
    /\ \E u \in UserIds, id \in ItemIds, body \in MoveBodies :
        db' = PutInventory(db, Users[u], id, body).st
    /\ WithinBounds(db', MaxLogs)
    /\ UNCHANGED <<reqs, mem>>

DeleteItem(maxLogs) ==
    /\ \E u \in UserIds, id \in ItemIds :
        db' = DeleteInventory(db, Users[u], id).st
    /\ WithinBounds(db', maxLogs)
    /\ UNCHANGED <<reqs, mem>>

Next ==
    \/ AssignUserToDepartment
    \/ CreateDepartment
    \/ CreateItem(MaxLogs)
    \/ UpdateItem
    \/ DeleteItem(MaxLogs)

\* every handler, requests handled one at a time
Spec == Init /\ [][Next]_vars

NextCreateDelete ==
    \/ CreateDepartment
    \/ CreateItem(MaxHistory)
    \/ DeleteItem(MaxHistory)

\* department creations, item creations and item deletions only, requests
\* handled one at a time
SpecCreateDelete == Init /\ [][NextCreateDelete]_vars

UpdateItemFields ==
    /\ \E u \in UserIds, id \in ItemIds, body \in UpdateBodies :
        db' = PutInventory(db, Users[u], id, body).st
    /\ WithinBounds(db', MaxLogs)
    /\ UNCHANGED <<reqs, mem>>

NextUpdate ==
    \/ CreateDepartment
    \/ CreateItem(MaxLogs)
    \/ UpdateItemFields
    \/ DeleteItem(MaxLogs)

\* department creations, item creations, updates of any column and
\* deletions, requests handled one at a time
SpecUpdate == Init /\ [][NextUpdate]_vars

\* the companies registered with any of the patterns, their counters where
\* earlier creations have left them (the rows of those creations left out)
InitRender ==
    /\ \E p1 \in Patterns, p2 \in Patterns, n1 \in Counters, n2 \in Counters :
          db = [createCompany(createCompany(EmptyStore, [assetIdPattern |-> p1]),
                              [assetIdPattern |-> p2])
                  EXCEPT !.companies[1].currentAssetId = n1,
                         !.companies[2].currentAssetId = n2]
    /\ reqs = [r \in 1..MaxRequests |-> Idle]
    /\ mem = EmptyStore

NextRender == CreateItem(MaxLogs)

\* item creations under every pattern and counter
SpecRender == InitRender /\ [][NextRender]_vars

-----------------------------------------------------------------------------
(* The client's mutations for operations the server does not implement:    *)
(* mutationFn sends no request and resolves, and onSuccess shows a toast.  *)
(* The toast shown and the store the attempt leaves.                       *)

Toast(title, description, st) ==
    [title |-> title, description |-> description, st |-> st]

\* (mutant) the request is sent and the server drops the last department row
deleteDepartmentMutation_Deletes(st, departmentId) ==
    Toast("Department deleted", "The department has been deleted.",
          [st EXCEPT !.departments = SubSeq(@, 1, Len(@) - 1)])

\* DepartmentsPage: deleteDepartmentMutation.mutate(departmentId)
deleteDepartmentMutation(st, departmentId) ==
    Toast("Operation unavailable", "Deleting departments is disabled in this version.", st)

\* UserManagementPage: addUserMutation.mutate(values)
addUserMutation(st, values) ==
    Toast("Operation unavailable", "Adding users is disabled in this version.", st)

\* UserManagementPage: deleteUserMutation.mutate(userId)
deleteUserMutation(st, userId) ==
    Toast("Operation unavailable", "Deleting users is disabled in this version.", st)

\* SettingsPage: updateCompanyMutation.mutate(values)
updateCompanyMutation(st, values) ==
    Toast("Operation unavailable", "Updating company settings is disabled in this version.", st)

\* SettingsPage: updateSubscriptionMutation.mutate(values)
updateSubscriptionMutation(st, values) ==
    Toast("Operation unavailable", "Updating subscription is disabled in this version.", st)

\* the values of the forms: a user's name, a pattern, a plan
UserValues == {"n1", "n2"}

SubscriptionValues == {"free", "pro"}

DeleteDepartment ==
    /\ \E d \in 1..MaxDepartments : db' = deleteDepartmentMutation(db, d).st
    /\ UNCHANGED <<reqs, mem>>

AddUser ==
    /\ \E values \in UserValues : db' = addUserMutation(db, values).st
    /\ UNCHANGED <<reqs, mem>>

DeleteUser ==
    /\ \E u \in UserIds : db' = deleteUserMutation(db, u).st
    /\ UNCHANGED <<reqs, mem>>

UpdateCompany ==
    /\ \E values \in Patterns : db' = updateCompanyMutation(db, values).st
    /\ UNCHANGED <<reqs, mem>>

UpdateSubscription ==
    /\ \E values \in SubscriptionValues : db' = updateSubscriptionMutation(db, values).st
    /\ UNCHANGED <<reqs, mem>>

NextUnavailable ==
    \/ AssignUserToDepartment
    \/ CreateDepartment
    \/ CreateItem(MaxLogs)
    \/ UpdateItem
    \/ DeleteItem(MaxLogs)
    \/ DeleteDepartment
    \/ AddUser
    \/ DeleteUser
    \/ UpdateCompany
    \/ UpdateSubscription

\* every handler and every mutation of the client that has no handler
SpecUnavailable == Init /\ [][NextUnavailable]_vars

-----------------------------------------------------------------------------
(* POST /api/inventory handled concurrently: every await of the handler    *)
(* and of DatabaseStorage.createInventoryItem is a step, and the steps of  *)
(* different requests interleave                                           *)

\* requests that have passed the handler's checks and not yet inserted their row
Uninserted ==
    {r \in DOMAIN reqs : reqs[r].pc \in {"getCompany", "updateCompany", "insertItem"}}

\* the handler's checks pass and createInventoryItem is entered
StartCreate ==
    \E r \in DOMAIN reqs :
        /\ reqs[r].pc = "idle"
        /\ db.itemSeq + Cardinality(Uninserted) < MaxItems
        /\ \E u \in UserIds, body \in CreateBodies :
            /\ PostInventoryRefusal(db, Users[u], body).message = ""
            /\ reqs' = [reqs EXCEPT ![r] =
                          [ pc |-> "getCompany", userId |-> u,
                            itemData |-> ItemData(Users[u], body) ]]
        /\ UNCHANGED <<db, mem>>

\* generateAssetId: getCompany, then the asset id is rendered
ReadCompany ==
    \E r \in DOMAIN reqs :
        /\ reqs[r].pc = "getCompany"
        /\ reqs' = [reqs EXCEPT ![r] =
                      [ pc |-> "updateCompany", userId |-> reqs[r].userId,
                        itemData |-> reqs[r].itemData,
                        currentId |-> db.companies[reqs[r].itemData.companyId].currentAssetId,
                        assetId |-> generateAssetIdValue(db, reqs[r].itemData.companyId) ]]
        /\ UNCHANGED <<db, mem>>

\* generateAssetId: UPDATE companies SET currentAssetId = currentId + 1
WriteCompany ==
    \E r \in DOMAIN reqs :
        /\ reqs[r].pc = "updateCompany"
        /\ db' = generateAssetIdWrite(db, reqs[r].itemData.companyId, reqs[r].currentId)
        /\ reqs' = [reqs EXCEPT ![r] =
                      [ pc |-> "insertItem", userId |-> reqs[r].userId,
                        itemData |-> reqs[r].itemData, assetId |-> reqs[r].assetId ]]
        /\ UNCHANGED mem

\* createInventoryItem: INSERT INTO inventory_items ... RETURNING, the row
\* returned is the one the handler is handed
InsertItem ==
    \E r \in DOMAIN reqs :
        /\ reqs[r].pc = "insertItem"
        /\ db' = insertInventoryItem(db, reqs[r].itemData, reqs[r].assetId)
        /\ reqs' = [reqs EXCEPT ![r] =
                      [ pc |-> "getDepartment", userId |-> reqs[r].userId,
                        itemData |-> reqs[r].itemData, itemId |-> db'.itemSeq,
                        item |-> db'.inventoryItems[db'.itemSeq] ]]
        /\ UNCHANGED mem

\* createInventoryItem: getDepartment; the accounting is skipped when there is no row
ReadDepartment ==
    \E r \in DOMAIN reqs :
        /\ reqs[r].pc = "getDepartment"
        /\ reqs' = [reqs EXCEPT ![r] =
                      IF HasDepartment(db, reqs[r].itemData.departmentId)
                      THEN [ pc |-> "updateDepartment", userId |-> reqs[r].userId,
                             itemData |-> reqs[r].itemData, itemId |-> reqs[r].itemId,
                             item |-> reqs[r].item,
                             assetCount |->
                                 db.departments[reqs[r].itemData.departmentId].assetCount,
                             capacityUsed |->
                                 db.departments[reqs[r].itemData.departmentId].capacityUsed ]
                      ELSE [ pc |-> "createActivityLog", userId |-> reqs[r].userId,
                             itemData |-> reqs[r].itemData, itemId |-> reqs[r].itemId,
                             item |-> reqs[r].item ]]
        /\ UNCHANGED <<db, mem>>

\* createInventoryItem: updateDepartment with the counters computed from the row read
WriteDepartment ==
    \E r \in DOMAIN reqs :
        /\ reqs[r].pc = "updateDepartment"
        /\ db' = createAccountingWrite(db, reqs[r].itemData.departmentId,
                                       reqs[r].assetCount, reqs[r].capacityUsed)
        /\ reqs' = [reqs EXCEPT ![r] =
                      [ pc |-> "createActivityLog", userId |-> reqs[r].userId,
                        itemData |-> reqs[r].itemData, itemId |-> reqs[r].itemId,
                        item |-> reqs[r].item ]]
        /\ UNCHANGED mem

\* the handler writes the activity entry of the row it was returned and answers 201
WriteActivityLog ==
    \E r \in DOMAIN reqs :
        /\ reqs[r].pc = "createActivityLog"
        /\ db' = createActivityLog(db,
                    LogEntry("added", reqs[r].itemId, reqs[r].item,
                             DepartmentNameOrUnknown(db, reqs[r].item.departmentId),
                             Users[reqs[r].userId]))
        /\ reqs' = [reqs EXCEPT ![r] = Idle]
        /\ UNCHANGED mem

NextConcurrent ==
    \/ StartCreate
    \/ ReadCompany
    \/ WriteCompany
    \/ InsertItem
    \/ ReadDepartment
    \/ WriteDepartment
    \/ WriteActivityLog

\* item creations only, handled concurrently
SpecConcurrent == Init /\ [][NextConcurrent]_vars

\* the storage call a request is about to make throws: the handler's catch
\* block answers 500 and the request ends, what it wrote before stays written
ThrowInCreate ==
    \E r \in DOMAIN reqs :
        /\ reqs[r].pc # "idle"
        /\ reqs[r].pc = "insertItem"
           => db.companies[reqs[r].itemData.companyId].currentAssetId < MaxCounter
        /\ reqs' = [reqs EXCEPT ![r] = Idle]
        /\ UNCHANGED <<db, mem>>

NextConcurrentFailures ==
    \/ StartCreate
    \/ ReadCompany
    \/ WriteCompany
    \/ InsertItem
    \/ ReadDepartment
    \/ WriteDepartment
    \/ WriteActivityLog
    \/ ThrowInCreate

\* item creations handled concurrently, any storage call of any of them throwing
SpecConcurrentFailures == Init /\ [][NextConcurrentFailures]_vars

-----------------------------------------------------------------------------
(* The item handlers when a storage call throws: the handler's catch block *)
(* answers 500, and what the calls before the failing one wrote stays      *)
(* written, as no call runs in a transaction. failedStep names the await   *)
(* that rejects; a handler that never reaches it runs as usual.            *)

ServerError(st) == Answer(500, "Server error", st)

\* the awaits of POST /api/inventory and of createInventoryItem
PostFailedSteps ==
    { "getUserDepartments", "getCompany", "updateCompany", "insertItem",
      "getDepartment", "updateDepartment", "getDepartmentName", "createActivityLog" }

\* the awaits of PUT /api/inventory/:id
PutFailedSteps ==
    { "getInventoryItem", "getUserDepartments", "updateInventoryItem",
      "getDepartmentName", "createActivityLog" }

\* the awaits of DELETE /api/inventory/:id and of deleteInventoryItem
DeleteFailedSteps ==
    { "getInventoryItem", "getDepartmentName", "getDepartment", "updateDepartment",
      "deleteItem", "createActivityLog" }

\* POST /api/inventory
PostInventoryFailing(st, user, body, failedStep) ==
    IF body.departmentId = 0 THEN PostInventoryRefusal(st, user, body)
    ELSE IF failedStep = "getUserDepartments" /\ user.role # "admin" THEN ServerError(st)
    ELSE IF PostInventoryRefusal(st, user, body).message # ""
    THEN PostInventoryRefusal(st, user, body)
    ELSE
      LET itemData == ItemData(user, body)
          st1 == generateAssetIdUpdate(st, itemData.companyId)
          st2 == insertInventoryItem(st1, itemData,
                                     generateAssetIdValue(st, itemData.companyId))
          st3 == createAccounting(st2, itemData.departmentId)
      IN IF failedStep \in {"getCompany", "updateCompany"} THEN ServerError(st)
         ELSE IF failedStep = "insertItem" THEN ServerError(st1)
         ELSE IF \/ failedStep = "getDepartment"
                 \/ /\ failedStep = "updateDepartment"
                    /\ HasDepartment(st2, itemData.departmentId)
         THEN ServerError(st2)
         ELSE IF failedStep \in {"getDepartmentName", "createActivityLog"}
         THEN ServerError(st3)
         ELSE PostInventory(st, user, body)

\* PUT /api/inventory/:id
PutInventoryFailing(st, user, itemId, body, failedStep) ==
    IF failedStep = "getInventoryItem" THEN ServerError(st)
    ELSE IF ~HasInventoryItem(st, itemId) THEN PutInventory(st, user, itemId, body)
    ELSE IF st.inventoryItems[itemId].companyId # user.companyId
    THEN PutInventory(st, user, itemId, body)
    ELSE IF failedStep = "getUserDepartments" /\ user.role # "admin" THEN ServerError(st)
    ELSE IF PutInventory(st, user, itemId, body).status = 403
    THEN PutInventory(st, user, itemId, body)
    ELSE IF failedStep = "updateInventoryItem" THEN ServerError(st)
    ELSE IF failedStep \in {"getDepartmentName", "createActivityLog"}
    THEN ServerError(updateInventoryItem(st, itemId, body))
    ELSE PutInventory(st, user, itemId, body)

\* DELETE /api/inventory/:id
DeleteInventoryFailing(st, user, itemId, failedStep) ==
    IF failedStep = "getInventoryItem" THEN ServerError(st)
    ELSE IF DeleteInventory(st, user, itemId).status # 200
    THEN DeleteInventory(st, user, itemId)
    ELSE IF failedStep \in {"getDepartmentName", "getDepartment"} THEN ServerError(st)
    ELSE IF /\ failedStep = "updateDepartment"
            /\ HasDepartment(st, st.inventoryItems[itemId].departmentId)
    THEN ServerError(st)
    ELSE IF failedStep = "deleteItem"
    THEN ServerError(deleteAccounting(st, st.inventoryItems[itemId].departmentId))
    ELSE IF failedStep = "createActivityLog"
    THEN ServerError(deleteInventoryItem(st, itemId))
    ELSE DeleteInventory(st, user, itemId)

\* the asset counters and the item rows stay within the bounds of these runs
CountersWithinBounds(st) ==
    /\ \A c \in DOMAIN st.companies : st.companies[c].currentAssetId <= MaxCounter
    /\ st.itemSeq <= MaxFailureItems

\* the requests of the runs in which calls throw: a department that exists
\* and one that never does, the handler's other inputs as before
BodiesToFail ==
    {body \in CreateBodies :
        /\ body.departmentId \in {1, MaxDepartments + 1}
        /\ body.companyId \in {0, 1}}

MovesToFail == {NoFields, [NoFields EXCEPT !.departmentId = 2]}

\* the callers of those runs: the users of one tenant
UsersToFail == {u \in UserIds : Users[u].companyId = 1}

\* no call throws ("none"), or one does
CreateItemMayFail ==
    /\ \E u \in UsersToFail, body \in BodiesToFail,
          failedStep \in PostFailedSteps \cup {"none"} :
        db' = PostInventoryFailing(db, Users[u], body, failedStep).st
    /\ WithinBounds(db', MaxLogs)
    /\ CountersWithinBounds(db')
    /\ UNCHANGED <<reqs, mem>>

UpdateItemMayFail ==
    /\ \E u \in UsersToFail, id \in 1..MaxFailureItems, body \in MovesToFail,
          failedStep \in PutFailedSteps \cup {"none"} :
        db' = PutInventoryFailing(db, Users[u], id, body, failedStep).st
    /\ WithinBounds(db', MaxLogs)
    /\ UNCHANGED <<reqs, mem>>

DeleteItemMayFail ==
    /\ \E u \in UsersToFail, id \in 1..MaxFailureItems,
          failedStep \in DeleteFailedSteps \cup {"none"} :
        db' = DeleteInventoryFailing(db, Users[u], id, failedStep).st
    /\ WithinBounds(db', MaxLogs)
    /\ UNCHANGED <<reqs, mem>>

NextFailures ==
    \/ CreateItemMayFail
    \/ UpdateItemMayFail
    \/ DeleteItemMayFail

\* the item handlers, requests handled one at a time, any storage call of
\* any request throwing
SpecFailures == Init /\ [][NextFailures]_vars

-----------------------------------------------------------------------------
(* DELETE /api/inventory/:id handled concurrently: every await of the      *)
(* handler and of DatabaseStorage.deleteInventoryItem is a step            *)

\* the accounting write of deleteInventoryItem, computed from the counters
\* that were read
deleteAccountingWrite(st, departmentId, assetCount, capacityUsed) ==
    updateDepartment(st, departmentId, Max(0, assetCount - 1), Max(0, capacityUsed - 10))

\* the handler's getInventoryItem and its checks pass
StartDelete ==
    \E r \in DOMAIN reqs :
        /\ reqs[r].pc = "idle"
        /\ \E u \in UserIds, id \in DOMAIN db.inventoryItems :
            /\ db.inventoryItems[id].companyId = Users[u].companyId
            /\ Users[u].role = "admin"
            /\ reqs' = [reqs EXCEPT ![r] =
                          [ pc |-> "deleteGetDepartmentName", userId |-> u, itemId |-> id,
                            existingItem |-> db.inventoryItems[id] ]]
        /\ UNCHANGED <<db, mem>>

\* the handler saves the department name of the item it read
DeleteReadDepartmentName ==
    \E r \in DOMAIN reqs :
        /\ reqs[r].pc = "deleteGetDepartmentName"
        /\ reqs' = [reqs EXCEPT ![r] =
                      [ pc |-> "deleteGetInventoryItem", userId |-> reqs[r].userId,
                        itemId |-> reqs[r].itemId, existingItem |-> reqs[r].existingItem,
                        departmentName |->
                            DepartmentNameOrUnknown(db, reqs[r].existingItem.departmentId) ]]
        /\ UNCHANGED <<db, mem>>

\* deleteInventoryItem: getInventoryItem; with no row the call throws and
\* the handler answers 500
DeleteReadItem ==
    \E r \in DOMAIN reqs :
        /\ reqs[r].pc = "deleteGetInventoryItem"
        /\ reqs' = [reqs EXCEPT ![r] =
                      IF HasInventoryItem(db, reqs[r].itemId)
                      THEN [ pc |-> "deleteGetDepartment", userId |-> reqs[r].userId,
                             itemId |-> reqs[r].itemId,
                             existingItem |-> reqs[r].existingItem,
                             departmentName |-> reqs[r].departmentName,
                             departmentId |-> db.inventoryItems[reqs[r].itemId].departmentId ]
                      ELSE Idle]
        /\ UNCHANGED <<db, mem>>

\* deleteInventoryItem: getDepartment; the accounting is skipped when there is no row
DeleteReadDepartment ==
    \E r \in DOMAIN reqs :
        /\ reqs[r].pc = "deleteGetDepartment"
        /\ reqs' = [reqs EXCEPT ![r] =
                      IF HasDepartment(db, reqs[r].departmentId)
                      THEN [ pc |-> "deleteUpdateDepartment", userId |-> reqs[r].userId,
                             itemId |-> reqs[r].itemId,
                             existingItem |-> reqs[r].existingItem,
                             departmentName |-> reqs[r].departmentName,
                             departmentId |-> reqs[r].departmentId,
                             assetCount |-> db.departments[reqs[r].departmentId].assetCount,
                             capacityUsed |->
                                 db.departments[reqs[r].departmentId].capacityUsed ]
                      ELSE [ pc |-> "deleteRow", userId |-> reqs[r].userId,
                             itemId |-> reqs[r].itemId,
                             existingItem |-> reqs[r].existingItem,
                             departmentName |-> reqs[r].departmentName ]]
        /\ UNCHANGED <<db, mem>>

\* deleteInventoryItem: updateDepartment with the counters computed from the row read
DeleteWriteDepartment ==
    \E r \in DOMAIN reqs :
        /\ reqs[r].pc = "deleteUpdateDepartment"
        /\ db' = deleteAccountingWrite(db, reqs[r].departmentId,
                                       reqs[r].assetCount, reqs[r].capacityUsed)
        /\ reqs' = [reqs EXCEPT ![r] =
                      [ pc |-> "deleteRow", userId |-> reqs[r].userId,
                        itemId |-> reqs[r].itemId, existingItem |-> reqs[r].existingItem,
                        departmentName |-> reqs[r].departmentName ]]
        /\ UNCHANGED mem

\* deleteInventoryItem: DELETE FROM inventory_items WHERE id; no row is no error
DeleteRow ==
    \E r \in DOMAIN reqs :
        /\ reqs[r].pc = "deleteRow"
        /\ db' = [db EXCEPT !.inventoryItems = Drop(@, reqs[r].itemId)]
        /\ reqs' = [reqs EXCEPT ![r] =
                      [ pc |-> "deleteCreateActivityLog", userId |-> reqs[r].userId,
                        itemId |-> reqs[r].itemId, existingItem |-> reqs[r].existingItem,
                        departmentName |-> reqs[r].departmentName ]]
        /\ UNCHANGED mem

\* the handler writes the activity entry of the row it read and answers 200
DeleteWriteActivityLog ==
    \E r \in DOMAIN reqs :
        /\ reqs[r].pc = "deleteCreateActivityLog"
        /\ db' = createActivityLog(db,
                    LogEntry("removed", reqs[r].itemId, reqs[r].existingItem,
                             reqs[r].departmentName, Users[reqs[r].userId]))
        /\ reqs' = [reqs EXCEPT ![r] = Idle]
        /\ UNCHANGED mem

NextConcurrentMutations ==
    \/ StartCreate
    \/ ReadCompany
    \/ WriteCompany
    \/ InsertItem
    \/ ReadDepartment
    \/ WriteDepartment
    \/ WriteActivityLog
    \/ StartDelete
    \/ DeleteReadDepartmentName
    \/ DeleteReadItem
    \/ DeleteReadDepartment
    \/ DeleteWriteDepartment
    \/ DeleteRow
    \/ DeleteWriteActivityLog

\* item creations and deletions, handled concurrently
SpecConcurrentMutations == Init /\ [][NextConcurrentMutations]_vars

\* no request is in flight
AllIdle == \A r \in DOMAIN reqs : reqs[r].pc = "idle"

\* an item is created while no request is in flight
CreateItemAlone ==
    /\ AllIdle
    /\ CreateItem(MaxHistory)

NextConcurrentDeletes ==
    \/ CreateItemAlone
    \/ StartDelete
    \/ DeleteReadDepartmentName
    \/ DeleteReadItem
    \/ DeleteReadDepartment
    \/ DeleteWriteDepartment
    \/ DeleteRow
    \/ DeleteWriteActivityLog

\* items created one at a time, deletions handled concurrently
SpecConcurrentDeletes == Init /\ [][NextConcurrentDeletes]_vars

-----------------------------------------------------------------------------
(* requireAuth, the middleware in front of every handler                   *)

Unauthorized(st) == Answer(401, "Unauthorized", st)

\* requireAuth: without a session the handler is not run; next is the
\* handler's answer
requireAuth(isAuthenticated, st, next) ==
    IF ~isAuthenticated THEN Unauthorized(st) ELSE next

\* a request without a session, to any route
UnauthenticatedRequest ==
    /\ db' = Unauthorized(db).st
    /\ UNCHANGED <<reqs, mem>>

NextRequests ==
    \/ AssignUserToDepartment
    \/ CreateDepartment
    \/ CreateItem(MaxLogs)
    \/ UpdateItem
    \/ DeleteItem(MaxLogs)
    \/ UnauthenticatedRequest

\* every handler behind requireAuth, requests handled one at a time
SpecRequests == Init /\ [][NextRequests]_vars

-----------------------------------------------------------------------------
(* The calls of IStorage made directly, one after the other, each on the   *)
(* DatabaseStorage tables and on the MemStorage instance                   *)

\* company ids a call may name: the first registered and one that never has
\* a row
CalledCompanyIds == {1, Cardinality(CompanyIds) + 1}

\* InsertInventoryItem values: a department that may exist and one that never does
CalledItemData ==
    [ companyId : CalledCompanyIds, departmentId : {1, MaxDepartments + 1}, name : {"n1"} ]

\* Partial<InventoryItem> values: no field, another department
CalledUpdateData == {NoFields, [NoFields EXCEPT !.departmentId = 2]}

\* ids a call may name, the last never that of a row
CalledItemIds == 1..(MaxItems + 1)

\* InsertActivityLog values
CalledLogData ==
    { LogEntry("added", 1, [assetId |-> <<"X">>, name |-> "n1"], "General", Users[1]) }

\* both storages as constructed
InitStorage ==
    /\ db = EmptyStore
    /\ mem = EmptyStore
    /\ reqs = [r \in 1..MaxRequests |-> Idle]

StorageWithinBounds(st) ==
    /\ Len(st.companies) <= Cardinality(CompanyIds)
    /\ WithinBounds(st, MaxLogs)

CallCreateCompany ==
    /\ \E pattern \in {DefaultPattern, LiteralPattern} :
          /\ db' = createCompanyOutcome(db, [assetIdPattern |-> pattern]).st
          /\ mem' = Mem_createCompany(mem, [assetIdPattern |-> pattern]).st
    /\ StorageWithinBounds(db') /\ StorageWithinBounds(mem')
    /\ UNCHANGED reqs

CallCreateDepartment ==
    /\ \E c \in DOMAIN db.companies \cap {1} :
          /\ db' = createDepartmentOutcome(db, [name |-> "Ops", companyId |-> c]).st
          /\ mem' = Mem_createDepartment(mem, [name |-> "Ops", companyId |-> c]).st
    /\ StorageWithinBounds(db') /\ StorageWithinBounds(mem')
    /\ UNCHANGED reqs

CallCreateInventoryItem ==
    /\ \E itemData \in CalledItemData :
          /\ db' = createInventoryItemOrThrow(db, itemData).st
          /\ mem' = Mem_createInventoryItem(mem, itemData).st
    /\ StorageWithinBounds(db') /\ StorageWithinBounds(mem')
    /\ UNCHANGED reqs

CallUpdateInventoryItem ==
    /\ \E id \in CalledItemIds, data \in CalledUpdateData :
          /\ db' = updateInventoryItemOrThrow(db, id, data).st
          /\ mem' = Mem_updateInventoryItem(mem, id, data).st
    /\ UNCHANGED reqs

CallDeleteInventoryItem ==
    /\ \E id \in CalledItemIds :
          /\ db' = deleteInventoryItemOrThrow(db, id).st
          /\ mem' = Mem_deleteInventoryItem(mem, id).st
    /\ UNCHANGED reqs

CallCreateActivityLog ==
    /\ \E logData \in CalledLogData :
          /\ db' = createActivityLogOutcome(db, logData).st
          /\ mem' = Mem_createActivityLog(mem, logData).st
    /\ StorageWithinBounds(db') /\ StorageWithinBounds(mem')
    /\ UNCHANGED reqs

NextStorage ==
    \/ CallCreateCompany
    \/ CallCreateDepartment
    \/ CallCreateInventoryItem
    \/ CallUpdateInventoryItem
    \/ CallDeleteInventoryItem
    \/ CallCreateActivityLog

\* the calls of IStorage, made one after the other on both storages
SpecStorage == InitStorage /\ [][NextStorage]_vars

-----------------------------------------------------------------------------
(* Vocabulary of the properties *)

HasPlaceholder(pattern) == \E i \in DOMAIN pattern : pattern[i] = "#"

FirstPlaceholder(pattern) ==
    CHOOSE i \in DOMAIN pattern :
        pattern[i] = "#" /\ \A j \in 1..(i - 1) : pattern[j] # "#"

IsDigit(c) == \E d \in DOMAIN DigitChars : DigitChars[d] = c

DigitValue(c) == (CHOOSE d \in DOMAIN DigitChars : DigitChars[d] = c) - 1

\* the decimal number s holds from position i on, continuing acc
RECURSIVE ParseDigits(_, _, _)
ParseDigits(s, i, acc) ==
    IF i > Len(s) \/ ~IsDigit(s[i]) THEN acc
    ELSE ParseDigits(s, i + 1, acc * 10 + DigitValue(s[i]))

\* the number an asset id of that pattern carries where the pattern has its
\* first placeholder run; -1 when it carries none
RenderedNumber(pattern, assetId) ==
    IF HasPlaceholder(pattern)
       /\ FirstPlaceholder(pattern) <= Len(assetId)
       /\ IsDigit(assetId[FirstPlaceholder(pattern)])
    THEN ParseDigits(assetId, FirstPlaceholder(pattern), 0)
    ELSE -1

PatternOf(companyId) == db.companies[companyId].assetIdPattern

\* the activity entries "added", which record each creation, in creation
\* order, with the asset id it was issued
Added == {k \in DOMAIN db.activityLogs : db.activityLogs[k].action = "added"}

-----------------------------------------------------------------------------
(* C1: two item creations running concurrently in one tenant are never     *)
(* issued the same asset id: whatever the interleaving of their reads and  *)
(* writes of currentAssetId and of their inserts, the committed items of a *)
(* tenant (whose pattern has a placeholder) carry different asset ids.     *)
C1_ConcurrentAssetIdsDiffer ==
    \A i, j \in DOMAIN db.inventoryItems :
        ( /\ i # j
          /\ db.inventoryItems[i].companyId = db.inventoryItems[j].companyId
          /\ HasPlaceholder(PatternOf(db.inventoryItems[i].companyId)) )
        => db.inventoryItems[i].assetId # db.inventoryItems[j].assetId

(* C2, as claimed: items created one after the other in one tenant never   *)
(* share an asset id, and the number rendered into the asset id strictly   *)
(* increases with creation order.                                          *)
C2_AsClaimed ==
    \A k, l \in Added :
        (k < l /\ db.activityLogs[k].companyId = db.activityLogs[l].companyId)
        => /\ db.activityLogs[k].assetId # db.activityLogs[l].assetId
           /\ RenderedNumber(PatternOf(db.activityLogs[k].companyId),
                             db.activityLogs[k].assetId)
              < RenderedNumber(PatternOf(db.activityLogs[l].companyId),
                               db.activityLogs[l].assetId)

(* C2, amended: items created one after the other in one tenant whose      *)
(* pattern has a placeholder run never share an asset id, and the number   *)
(* rendered into the asset id strictly increases with creation order.      *)
C2_SequentialAssetIds ==
    \A k, l \in Added :
        ( /\ k < l
          /\ db.activityLogs[k].companyId = db.activityLogs[l].companyId
          /\ HasPlaceholder(PatternOf(db.activityLogs[k].companyId)) )
        => /\ db.activityLogs[k].assetId # db.activityLogs[l].assetId
           /\ RenderedNumber(PatternOf(db.activityLogs[k].companyId),
                             db.activityLogs[k].assetId)
              < RenderedNumber(PatternOf(db.activityLogs[l].companyId),
                               db.activityLogs[l].assetId)

\* two items were created one after the other in a tenant whose pattern has
\* a placeholder run, and the second carries the number 2
C2_Witness ==
    \E k, l \in Added :
        /\ k < l
        /\ db.activityLogs[k].companyId = db.activityLogs[l].companyId
        /\ HasPlaceholder(PatternOf(db.activityLogs[k].companyId))
        /\ RenderedNumber(PatternOf(db.activityLogs[l].companyId),
                          db.activityLogs[l].assetId) = 2

-----------------------------------------------------------------------------
(* C3: tenant isolation. No department, item or activity entry of another  *)
(* tenant is in what a caller gets from GET /api/departments,              *)
(* /api/inventory, /api/activity or /api/dashboard, and GET /api/company   *)
(* returns the caller's own company.                                       *)
C3_TenantIsolation ==
    \A u \in UserIds :
        LET user == Users[u]
            dashboard == GetDashboard(db, user)
            activity == GetActivity(db, user)
        IN /\ GetCompany(db, user) = user.companyId
           /\ \A d \in DOMAIN db.departments :
                 db.departments[d].companyId # user.companyId
                 => d \notin GetDepartments(db, user) \cup dashboard.departments
           /\ \A i \in DOMAIN db.inventoryItems :
                 db.inventoryItems[i].companyId # user.companyId
                 => i \notin GetInventory(db, user) \cup dashboard.inventoryItems
           /\ \A n \in DOMAIN activity : activity[n].companyId = user.companyId
           /\ \A n \in DOMAIN dashboard.recentActivity :
                 dashboard.recentActivity[n].companyId = user.companyId

\* both tenants own an item and an activity entry, and the admin of each
\* lists something
C3_Witness ==
    /\ \A c \in CompanyIds :
          /\ \E i \in DOMAIN db.inventoryItems : db.inventoryItems[i].companyId = c
          /\ \E k \in DOMAIN db.activityLogs : db.activityLogs[k].companyId = c
    /\ \A u \in UserIds :
          /\ GetInventory(db, Users[u]) # {}
          /\ GetActivity(db, Users[u]) # << >>

(* C4: on updateItem and deleteItem an item of another tenant is denied,   *)
(* by the tenant check (made before the role and membership checks), and   *)
(* the answer is the one given for an item id that does not exist.         *)
C4_CrossTenantLooksNotFound ==
    \A u \in UserIds, i \in DOMAIN db.inventoryItems :
        db.inventoryItems[i].companyId # Users[u].companyId
        => LET missing == db.itemSeq + 1
               delete == DeleteInventory(db, Users[u], i)
               deleteMissing == DeleteInventory(db, Users[u], missing)
           IN /\ delete.st = db
              /\ delete.status = deleteMissing.status
              /\ delete.message = deleteMissing.message
              /\ \A body \in MoveBodies :
                    LET put == PutInventory(db, Users[u], i, body)
                        putMissing == PutInventory(db, Users[u], missing, body)
                    IN /\ put.st = db
                       /\ put.status = putMissing.status
                       /\ put.message = putMissing.message

(* C5: an employee whose only department is D is refused (403, nothing     *)
(* persisted) when creating an item in a department other than D and when  *)
(* updating an item of their tenant whose department is not D; the same    *)
(* requests by an admin of that tenant succeed.                            *)
C5_EmployeeDepartmentAccess ==
    \A u \in UserIds, D \in DOMAIN db.departments :
        ( /\ Users[u].role = "employee"
          /\ {ud \in db.userDepartments : ud.userId = u}
                = {[userId |-> u, departmentId |-> D]} )
        => /\ \A body \in CreateBodies :
                 (body.departmentId \notin {0, D} /\ InsertInventoryItemSchemaOk(body))
                 => /\ PostInventory(db, Users[u], body).status = 403
                    /\ PostInventory(db, Users[u], body).st = db
                    /\ \A a \in UserIds :
                          ( /\ Users[a].role = "admin"
                            /\ Users[a].companyId = Users[u].companyId )
                          => LET r == PostInventory(db, Users[a], body)
                             IN /\ r.status = 201
                                /\ r.st.itemSeq \in DOMAIN r.st.inventoryItems
                                /\ r.st.itemSeq \notin DOMAIN db.inventoryItems
                                /\ r.st.inventoryItems[r.st.itemSeq].departmentId
                                      = body.departmentId
           /\ \A i \in DOMAIN db.inventoryItems, body \in MoveBodies :
                 ( /\ db.inventoryItems[i].companyId = Users[u].companyId
                   /\ db.inventoryItems[i].departmentId # D )
                 => /\ PutInventory(db, Users[u], i, body).status = 403
                    /\ PutInventory(db, Users[u], i, body).st = db
                    /\ \A a \in UserIds :
                          ( /\ Users[a].role = "admin"
                            /\ Users[a].companyId = Users[u].companyId )
                          => LET r == PutInventory(db, Users[a], i, body)
                             IN /\ r.status = 200
                                /\ r.st.inventoryItems[i]
                                      = MergeItem(db.inventoryItems[i], body)

\* an employee has one department, D; their tenant owns another department,
\* in which the tenant's admin has created an item
C5_Witness ==
    \E u \in UserIds, D \in DOMAIN db.departments, i \in DOMAIN db.inventoryItems :
        /\ Users[u].role = "employee"
        /\ {ud \in db.userDepartments : ud.userId = u}
              = {[userId |-> u, departmentId |-> D]}
        /\ db.inventoryItems[i].companyId = Users[u].companyId
        /\ db.inventoryItems[i].departmentId # D
        /\ db.inventoryItems[i].departmentId \in DOMAIN db.departments
        /\ db.departments[db.inventoryItems[i].departmentId].companyId
              = Users[u].companyId
        /\ \E k \in Added :
              /\ db.activityLogs[k].itemId = i
              /\ Users[db.activityLogs[k].userId].role = "admin"

(* C6: an employee never deletes an item. Whatever departments the         *)
(* employee belongs to, DELETE by an employee is refused and leaves items, *)
(* department counters and the activity log as they were; a DELETE that    *)
(* changes anything is an admin's, on an item of the admin's tenant.       *)
C6_EmployeeNeverDeletes ==
    /\ \A u \in UserIds, i \in ItemIds :
          Users[u].role = "employee"
          => \A memberships \in
                  SUBSET {[userId |-> u, departmentId |-> d] : d \in DOMAIN db.departments} :
                LET st == [db EXCEPT !.userDepartments = memberships]
                    r == DeleteInventory(st, Users[u], i)
                IN /\ r.st = st
                   /\ r.status = IF i \in DOMAIN db.inventoryItems THEN 403 ELSE 404
    /\ \A u \in UserIds, i \in ItemIds :
          DeleteInventory(db, Users[u], i).st # db
          => /\ Users[u].role = "admin"
             /\ db.inventoryItems[i].companyId = Users[u].companyId
    /\ \A k \in DOMAIN db.activityLogs :
          db.activityLogs[k].action = "removed"
          => Users[db.activityLogs[k].userId].role = "admin"

\* an item of the employee's tenant lies in a department the employee
\* belongs to
C6_Witness ==
    \E u \in UserIds, i \in DOMAIN db.inventoryItems :
        /\ Users[u].role = "employee"
        /\ db.inventoryItems[i].companyId = Users[u].companyId
        /\ HasDepartmentAccess(db, u, db.inventoryItems[i].departmentId)

(* C7: createDepartment succeeds only for an admin; the department created *)
(* belongs to the caller's tenant, never to a tenant named in the request, *)
(* and starts with item count 0 and capacity-used 0; an employee is        *)
(* refused and no department is created.                                   *)
C7_CreateDepartmentAdminOnly ==
    \A u \in UserIds, body \in DepartmentBodies :
        LET r == PostDepartments(db, Users[u], body)
        IN /\ (r.status = 201 \/ r.st # db)
              => /\ Users[u].role = "admin"
                 /\ r.status = 201
                 /\ r.st = [db EXCEPT !.departments =
                               Append(@, [ companyId |-> Users[u].companyId,
                                           name |-> body.name,
                                           assetCount |-> 0,
                                           capacityUsed |-> 0 ])]
           /\ Users[u].role = "employee" => (r.status = 403 /\ r.st = db)
           /\ (Users[u].role = "admin" /\ InsertDepartmentSchemaOk(body))
              => r.status = 201

\* an admin has created a department: it is there, owned by a tenant, with
\* another tenant present
C7_Witness ==
    \E d \in DOMAIN db.departments :
        /\ db.departments[d].name = "Ops"
        /\ \E c \in CompanyIds : c # db.departments[d].companyId

(* C8: under item creations and deletions a department's item count and    *)
(* capacity-used never go below 0, and both are 0 whenever every item      *)
(* created in the department has been deleted again.                       *)
C8_CountersNonNegativeReturnToZero ==
    \A d \in DOMAIN db.departments :
        /\ db.departments[d].assetCount >= 0
        /\ db.departments[d].capacityUsed >= 0
        /\ (\A i \in DOMAIN db.inventoryItems : db.inventoryItems[i].departmentId # d)
           => /\ db.departments[d].assetCount = 0
              /\ db.departments[d].capacityUsed = 0

\* two items were created in the one department named "Ops" and then both
\* deleted
C8_Witness ==
    /\ Len(db.activityLogs) = 4
    /\ \A k \in DOMAIN db.activityLogs :
          /\ db.activityLogs[k].departmentName = "Ops"
          /\ db.activityLogs[k].action = IF k <= 2 THEN "added" ELSE "removed"
    /\ db.inventoryItems = << >>

\* the departments that exist from registration on: every item lying in one
\* of them was created or moved there while the department existed
DefaultDepartments == {d \in DOMAIN db.departments : db.departments[d].name = "General"}

(* C9: after any sequence of createItem, updateItem and deleteItem a       *)
(* department's item count is the number of live items whose department it *)
(* is, and its capacity-used is 10 times that number (stated of the        *)
(* departments that exist from registration on).                           *)
C9_CountersMatchLiveItems ==
    \A d \in DefaultDepartments :
        LET live == {i \in DOMAIN db.inventoryItems : db.inventoryItems[i].departmentId = d}
        IN /\ db.departments[d].assetCount = Cardinality(live)
           /\ db.departments[d].capacityUsed = 10 * Cardinality(live)

(* C10: when an update moves an item from department S to department D,    *)
(* S's item count goes down by 1 and its capacity-used by 10, and D's item *)
(* count goes up by 1 and its capacity-used by 10.                         *)
C10_TransferAdjustsBoth ==
    [][ \A i \in DOMAIN db.inventoryItems \cap DOMAIN db'.inventoryItems :
          LET S == db.inventoryItems[i].departmentId
              D == db'.inventoryItems[i].departmentId
          IN (S # D /\ S \in DOMAIN db.departments /\ D \in DOMAIN db.departments)
             => /\ db'.departments[S].assetCount = db.departments[S].assetCount - 1
                /\ db'.departments[S].capacityUsed = db.departments[S].capacityUsed - 10
                /\ db'.departments[D].assetCount = db.departments[D].assetCount + 1
                /\ db'.departments[D].capacityUsed = db.departments[D].capacityUsed + 10
      ]_vars

\* after holds the rows of before and one more, of that action, item and tenant
AppendsOneRow(before, after, action, itemId, companyId) ==
    /\ Len(after) = Len(before) + 1
    /\ SubSeq(after, 1, Len(before)) = before
    /\ after[Len(after)].action = action
    /\ after[Len(after)].itemId = itemId
    /\ after[Len(after)].companyId = companyId

(* C11: a successful create, update or delete of an item adds exactly one  *)
(* activity row of the caller's tenant, with action "added", "updated" or  *)
(* "removed" and the id of the item created, updated or deleted; a request *)
(* that is refused, or in which a storage call throws, adds none.          *)
C11_OneLogRowPerMutation ==
    \A u \in UserIds :
        /\ \A body \in CreateBodies, failedStep \in PostFailedSteps \cup {"none"} :
              LET r == PostInventoryFailing(db, Users[u], body, failedStep)
              IN IF r.status = 201
                 THEN /\ r.st.itemSeq \in DOMAIN r.st.inventoryItems \ DOMAIN db.inventoryItems
                      /\ AppendsOneRow(db.activityLogs, r.st.activityLogs, "added",
                                       r.st.itemSeq, Users[u].companyId)
                 ELSE r.st.activityLogs = db.activityLogs
        /\ \A id \in ItemIds, body \in MoveBodies, failedStep \in PutFailedSteps \cup {"none"} :
              LET r == PutInventoryFailing(db, Users[u], id, body, failedStep)
              IN IF r.status = 200
                 THEN /\ r.st.inventoryItems[id] = MergeItem(db.inventoryItems[id], body)
                      /\ AppendsOneRow(db.activityLogs, r.st.activityLogs, "updated",
                                       id, Users[u].companyId)
                 ELSE r.st.activityLogs = db.activityLogs
        /\ \A id \in ItemIds, failedStep \in DeleteFailedSteps \cup {"none"} :
              LET r == DeleteInventoryFailing(db, Users[u], id, failedStep)
              IN IF r.status = 200
                 THEN /\ id \in DOMAIN db.inventoryItems \ DOMAIN r.st.inventoryItems
                      /\ AppendsOneRow(db.activityLogs, r.st.activityLogs, "removed",
                                       id, Users[u].companyId)
                 ELSE r.st.activityLogs = db.activityLogs

\* an item was created and then updated or deleted, each with its row, and a
\* creation in which a call threw has left the asset counter ahead
C11_Witness ==
    /\ Len(db.activityLogs) = 2
    /\ db.activityLogs[1].action = "added"
    /\ db.activityLogs[2].action \in {"updated", "removed"}
    /\ db.activityLogs[2].itemId = db.activityLogs[1].itemId
    /\ db.companies[1].currentAssetId > db.itemSeq + 1

(* C12: the activity log is append-only and its snapshots are frozen: no   *)
(* step changes or removes a row already written, and a row's asset id,    *)
(* item name and department name are those the item and its department     *)
(* had when the row was written (for "removed", just before the deletion). *)
C12_LogAppendOnlySnapshotsFrozen ==
    [][ /\ \A k \in DOMAIN db.activityLogs :
              /\ k \in DOMAIN db'.activityLogs
              /\ db'.activityLogs[k] = db.activityLogs[k]
        /\ \A k \in DOMAIN db'.activityLogs \ DOMAIN db.activityLogs :
              LET row == db'.activityLogs[k]
                  at == IF row.action = "removed" THEN db ELSE db'
                  item == at.inventoryItems[row.itemId]
              IN /\ row.assetId = item.assetId
                 /\ row.itemName = item.name
                 /\ row.departmentName = DepartmentNameOrUnknown(at, item.departmentId)
      ]_vars

\* the row of a creation still shows the name and asset id the item had
\* then, after an update has given the item another name or asset id
C12_Witness ==
    \E k \in Added :
        /\ db.activityLogs[k].itemId \in DOMAIN db.inventoryItems
        /\ \/ db.activityLogs[k].itemName # db.inventoryItems[db.activityLogs[k].itemId].name
           \/ db.activityLogs[k].assetId # db.inventoryItems[db.activityLogs[k].itemId].assetId
        /\ \E j \in DOMAIN db.activityLogs :
              /\ j > k
              /\ db.activityLogs[j].action = "updated"
              /\ db.activityLogs[j].itemId = db.activityLogs[k].itemId

(* C13: createItem, updateItem and deleteItem are all-or-nothing, so that  *)
(* no reachable state holds an item without its "added" activity row, or   *)
(* lacks an item that was deleted without holding its "removed" row.       *)
C13_AllOrNothing ==
    /\ \A i \in DOMAIN db.inventoryItems :
          \E k \in Added : db.activityLogs[k].itemId = i
    /\ \A i \in (1..db.itemSeq) \ DOMAIN db.inventoryItems :
          \E k \in DOMAIN db.activityLogs :
              /\ db.activityLogs[k].action = "removed"
              /\ db.activityLogs[k].itemId = i

(* C14: when the accounting step of createItem throws after the item row   *)
(* was written, either no item is left persisted, or the request completes *)
(* with 201, the item persisted and its activity row written.              *)
C14_AccountingFailureOutcome ==
    \A u \in UserIds, body \in CreateBodies :
        LET r == PostInventoryFailing(db, Users[u], body, "updateDepartment")
        IN \/ r.st.inventoryItems = db.inventoryItems
           \/ /\ r.status = 201
              /\ r.st.itemSeq \in DOMAIN r.st.inventoryItems
              /\ AppendsOneRow(db.activityLogs, r.st.activityLogs, "added",
                               r.st.itemSeq, Users[u].companyId)

(* C15: an item's asset id is immutable: whatever fields the updateItem    *)
(* requests carry, no step changes the asset id of an item in the store.   *)
C15_AssetIdImmutable ==
    [][ \A i \in DOMAIN db.inventoryItems \cap DOMAIN db'.inventoryItems :
            db'.inventoryItems[i].assetId = db.inventoryItems[i].assetId
      ]_vars

(* C16: in every reachable state the department an item references is      *)
(* owned by the item's tenant (stated of the items whose department row    *)
(* exists).                                                                *)
C16_DepartmentOfSameTenant ==
    \A i \in DOMAIN db.inventoryItems :
        db.inventoryItems[i].departmentId \in DOMAIN db.departments
        => db.departments[db.inventoryItems[i].departmentId].companyId
              = db.inventoryItems[i].companyId

\* the number of decimal digits of n
NumDigits(n) == CHOOSE k \in 1..6 : n < 10^k /\ (k = 1 \/ n >= 10^(k - 1))

\* the positions at which a placeholder run of pattern p starts
RunStarts(p) == {i \in DOMAIN p : p[i] = "#" /\ (i = 1 \/ p[i - 1] # "#")}

\* the length of the run that starts at s
RunSize(p, s) ==
    1 + Cardinality({j \in (s + 1)..Len(p) : \A x \in s..j : p[x] = "#"})

\* the places the number n takes in a run of the given size
Width(size, n) == IF NumDigits(n) > size THEN NumDigits(n) ELSE size

\* by how much the runs among starts lengthen the text when n is written
\* into each of them
RECURSIVE Growth(_, _, _)
Growth(p, starts, n) ==
    IF starts = {} THEN 0
    ELSE LET s == CHOOSE x \in starts : TRUE
         IN Width(RunSize(p, s), n) - RunSize(p, s) + Growth(p, starts \ {s}, n)

\* where position i of the pattern lies in a text in which n is written into
\* every run before i
Place(p, i, n) == i + Growth(p, {s \in RunStarts(p) : s < i}, n)

\* the text a holds, at the places from..(from + width - 1), the number n in
\* decimal digits, zeros first
HoldsNumber(a, from, width, n) ==
    /\ from + width - 1 <= Len(a)
    /\ \A j \in from..(from + width - 1) : IsDigit(a[j])
    /\ ParseDigits(SubSeq(a, from, from + width - 1), 1, 0) = n

\* the text a is pattern p with n written into its first run only
FirstRunRendered(p, n, a) ==
    LET f == FirstPlaceholder(p)
        size == RunSize(p, f)
        width == Width(size, n)
    IN /\ Len(a) = Len(p) - size + width
       /\ SubSeq(a, 1, f - 1) = SubSeq(p, 1, f - 1)
       /\ HoldsNumber(a, f, width, n)
       /\ SubSeq(a, f + width, Len(a)) = SubSeq(p, f + size, Len(p))

\* the text a is pattern p with n written into every run
EveryRunRendered(p, n, a) ==
    /\ Len(a) = Len(p) + Growth(p, RunStarts(p), n)
    /\ \A i \in DOMAIN p : p[i] # "#" => a[Place(p, i, n)] = p[i]
    /\ \A s \in RunStarts(p) :
          HoldsNumber(a, Place(p, s, n), Width(RunSize(p, s), n), n)

\* the step inserts an item row
Creates == db'.itemSeq = db.itemSeq + 1 /\ db'.itemSeq \in DOMAIN db'.inventoryItems

\* the pattern and the counter of the company whose item the step inserts,
\* and the asset id the item is given
CreatedPattern ==
    db.companies[db'.inventoryItems[db'.itemSeq].companyId].assetIdPattern

CreatedCounter ==
    db.companies[db'.inventoryItems[db'.itemSeq].companyId].currentAssetId

CreatedAssetId == db'.inventoryItems[db'.itemSeq].assetId

(* C17: generateAssetId writes the counter in decimal into the placeholder *)
(* run, padded with zeros to the length of the run and never cut, and      *)
(* leaves every other character of the pattern as it is: "A-####" gives    *)
(* "A-0007" for 7 and "A-12345" for 12345, and a pattern with no           *)
(* placeholder gives the pattern itself (patterns with at most one run).   *)
C17_PatternRendering ==
    [][ (Creates /\ Cardinality(RunStarts(CreatedPattern)) <= 1)
        => /\ RunStarts(CreatedPattern) = {} => CreatedAssetId = CreatedPattern
           /\ RunStarts(CreatedPattern) # {}
              => FirstRunRendered(CreatedPattern, CreatedCounter, CreatedAssetId)
           /\ (CreatedPattern = <<"A", "-", "#", "#", "#", "#">> /\ CreatedCounter = 7)
              => CreatedAssetId = <<"A", "-", "0", "0", "0", "7">>
           /\ (CreatedPattern = <<"A", "-", "#", "#", "#", "#">> /\ CreatedCounter = 12345)
              => CreatedAssetId = <<"A", "-", "1", "2", "3", "4", "5">>
           /\ CreatedPattern = <<"I", "T", "E", "M">>
              => CreatedAssetId = <<"I", "T", "E", "M">>
      ]_vars

\* one item was issued the padded "A-0007" and another the uncut "A-12345"
C17_Witness ==
    \E i \in DOMAIN db.inventoryItems, j \in DOMAIN db.inventoryItems :
        /\ db.inventoryItems[i].assetId = <<"A", "-", "0", "0", "0", "7">>
        /\ db.inventoryItems[j].assetId = <<"A", "-", "1", "2", "3", "4", "5">>

(* C18 as claimed: with several placeholder runs in the pattern, the       *)
(* counter is written into the first run only and every later run stays    *)
(* in the asset id as it is in the pattern.                                *)
C18_AsClaimed ==
    [][ (Creates /\ Cardinality(RunStarts(CreatedPattern)) > 1)
        => FirstRunRendered(CreatedPattern, CreatedCounter, CreatedAssetId)
      ]_vars

(* C18 amended: with several placeholder runs in the pattern, the counter  *)
(* is written into every run, each padded to its own length, and no        *)
(* placeholder character is left in the asset id.                          *)
C18_EveryRunSubstituted ==
    [][ (Creates /\ Cardinality(RunStarts(CreatedPattern)) > 1)
        => /\ EveryRunRendered(CreatedPattern, CreatedCounter, CreatedAssetId)
           /\ \A j \in DOMAIN CreatedAssetId : CreatedAssetId[j] # "#"
      ]_vars

\* an item of a company whose pattern is "#-##" was issued "7-07"
C18_Witness ==
    \E i \in DOMAIN db.inventoryItems :
        /\ db.companies[db.inventoryItems[i].companyId].assetIdPattern
              = <<"#", "-", "#", "#">>
        /\ db.inventoryItems[i].assetId = <<"7", "-", "0", "7">>

(* C19: a tenant's asset counter starts at 1 and never decreases, and,     *)
(* while creations that fail after their asset id was computed may leave   *)
(* gaps, no item is committed with a counter value that a committed item   *)
(* of the tenant already carries.                                          *)
C19_CounterNeverReused ==
    /\ \A c \in DOMAIN db.companies : db.companies[c].currentAssetId = 1
    /\ [][ /\ \A c \in DOMAIN db.companies :
                 db'.companies[c].currentAssetId >= db.companies[c].currentAssetId
           /\ Creates
              => \A j \in DOMAIN db.inventoryItems :
                    ( /\ db.inventoryItems[j].companyId
                            = db'.inventoryItems[db'.itemSeq].companyId
                      /\ HasPlaceholder(PatternOf(db.inventoryItems[j].companyId)) )
                    => RenderedNumber(PatternOf(db.inventoryItems[j].companyId),
                                      db.inventoryItems[j].assetId)
                          # RenderedNumber(PatternOf(db.inventoryItems[j].companyId),
                                           CreatedAssetId)
         ]_vars

\* what an attempt at an operation that is not implemented must show and leave
Unavailable(outcome) ==
    /\ outcome.title = "Operation unavailable"
    /\ outcome.st = db

(* C20: the operations this version does not implement (deleting a         *)
(* department, adding or deleting a user, changing the company settings    *)
(* or the subscription) change nothing persisted and end in "Operation     *)
(* unavailable", never in a success message; and no step makes the set of  *)
(* departments of a tenant smaller.                                        *)
C20_UnavailableOperations ==
    /\ [](/\ \A d \in 1..MaxDepartments : Unavailable(deleteDepartmentMutation(db, d))
          /\ \A values \in UserValues : Unavailable(addUserMutation(db, values))
          /\ \A u \in UserIds : Unavailable(deleteUserMutation(db, u))
          /\ \A values \in Patterns : Unavailable(updateCompanyMutation(db, values))
          /\ \A values \in SubscriptionValues :
                Unavailable(updateSubscriptionMutation(db, values)))
    /\ [][ \A c \in CompanyIds :
              getDepartmentsByCompany(db, c) \subseteq getDepartmentsByCompany(db', c)
         ]_vars

\* a tenant has a department besides its default one, with no item in it
C20_Witness ==
    \E d \in DOMAIN db.departments :
        /\ db.departments[d].name = "Ops"
        /\ \A i \in DOMAIN db.inventoryItems : db.inventoryItems[i].departmentId # d
        /\ db.inventoryItems # << >>

-----------------------------------------------------------------------------
(* C21: when the department an item references has no row at the           *)
(* accounting lookup of createInventoryItem or deleteInventoryItem, the    *)
(* accounting is skipped and the mutation goes through: the item is        *)
(* created, or removed, the request is answered 201, or 200, and no        *)
(* department's counters change.                                           *)
C21_AccountingSkippedWhenDepartmentMissing ==
    /\ \A u \in UserIds, body \in CreateBodies :
          ( /\ ~HasDepartment(db, body.departmentId)
            /\ PostInventoryRefusal(db, Users[u], body).message = "" )
          => LET st == createInventoryItem(db, ItemData(Users[u], body))
                 r == PostInventory(db, Users[u], body)
             IN /\ st.departments = db.departments
                /\ st.itemSeq \in DOMAIN st.inventoryItems \ DOMAIN db.inventoryItems
                /\ st.inventoryItems[st.itemSeq].departmentId = body.departmentId
                /\ r.status = 201
                /\ r.st.inventoryItems = st.inventoryItems
                /\ r.st.departments = db.departments
    /\ \A i \in DOMAIN db.inventoryItems :
          ~HasDepartment(db, db.inventoryItems[i].departmentId)
          => LET st == deleteInventoryItem(db, i)
             IN /\ st.departments = db.departments
                /\ i \notin DOMAIN st.inventoryItems
                /\ \A u \in UserIds :
                      ( /\ Users[u].role = "admin"
                        /\ Users[u].companyId = db.inventoryItems[i].companyId )
                      => LET r == DeleteInventory(db, Users[u], i)
                         IN /\ r.status = 200
                            /\ r.st.inventoryItems = st.inventoryItems
                            /\ r.st.departments = db.departments

\* an item was created in a department that has no row, and then deleted
C21_Witness ==
    /\ Len(db.activityLogs) = 2
    /\ db.activityLogs[1].action = "added"
    /\ db.activityLogs[2].action = "removed"
    /\ db.activityLogs[2].itemId = db.activityLogs[1].itemId
    /\ \A k \in DOMAIN db.activityLogs : db.activityLogs[k].departmentName = "Unknown"

-----------------------------------------------------------------------------
\* the ids of rows that were inserted and are deleted, or were never inserted
NoRow(st) == CalledItemIds \ DOMAIN st.inventoryItems

NotFound(st) == Outcome("Inventory item not found", NoResult, st)

(* C22: updateInventoryItem and deleteInventoryItem on an id with no row   *)
(* fail with a not-found error, and so do the requests (404), and leave    *)
(* items, department counters and the activity log as they were; deleting  *)
(* the same item twice in a row takes 1 and 10 off its department's        *)
(* counters once only. On success the update merges the given fields into  *)
(* the row and the delete removes the row, whose id never holds a row      *)
(* again.                                                                  *)
C22_NotFoundChangesNothing ==
    /\ [](/\ \A id \in NoRow(db) :
                /\ deleteInventoryItemOrThrow(db, id) = NotFound(db)
                /\ \A data \in UpdateBodies :
                      updateInventoryItemOrThrow(db, id, data) = NotFound(db)
                /\ \A u \in UserIds :
                      /\ DeleteInventory(db, Users[u], id)
                            = Answer(404, "Item not found", db)
                      /\ \A body \in UpdateBodies :
                            PutInventory(db, Users[u], id, body)
                               = Answer(404, "Item not found", db)
          /\ \A id \in NoRow(mem) :
                /\ Mem_deleteInventoryItem(mem, id) = NotFound(mem)
                /\ \A data \in UpdateBodies :
                      Mem_updateInventoryItem(mem, id, data) = NotFound(mem)
          /\ \A i \in DOMAIN db.inventoryItems :
                LET item == db.inventoryItems[i]
                    once == deleteInventoryItemOrThrow(db, i)
                    twice == deleteInventoryItemOrThrow(once.st, i)
                IN /\ once.error = ""
                   /\ i \notin DOMAIN once.st.inventoryItems
                   /\ \A j \in DOMAIN db.inventoryItems \ {i} :
                         once.st.inventoryItems[j] = db.inventoryItems[j]
                   /\ twice = NotFound(once.st)
                   /\ HasDepartment(db, item.departmentId)
                      => LET before == db.departments[item.departmentId]
                             after == twice.st.departments[item.departmentId]
                         IN /\ after.assetCount = Max(0, before.assetCount - 1)
                            /\ after.capacityUsed = Max(0, before.capacityUsed - 10)
                   /\ \A data \in UpdateBodies :
                         LET updated == updateInventoryItemOrThrow(db, i, data)
                         IN /\ updated.error = ""
                            /\ updated.result = [id |-> i, row |-> MergeItem(item, data)]
                            /\ updated.st
                                  = [db EXCEPT !.inventoryItems[i] = MergeItem(item, data)]
          /\ \A i \in DOMAIN mem.inventoryItems :
                LET item == mem.inventoryItems[i]
                    once == Mem_deleteInventoryItem(mem, i)
                    twice == Mem_deleteInventoryItem(once.st, i)
                IN /\ once.error = ""
                   /\ i \notin DOMAIN once.st.inventoryItems
                   /\ twice = NotFound(once.st)
                   /\ HasDepartment(mem, item.departmentId)
                      => LET before == mem.departments[item.departmentId]
                             after == twice.st.departments[item.departmentId]
                         IN /\ after.assetCount = Max(0, before.assetCount - 1)
                            /\ after.capacityUsed = Max(0, before.capacityUsed - 10)
                   /\ \A data \in UpdateBodies :
                         LET updated == Mem_updateInventoryItem(mem, i, data)
                         IN /\ updated.error = ""
                            /\ updated.st
                                  = [mem EXCEPT !.inventoryItems[i] = MergeItem(item, data)])
    /\ [][ /\ \A id \in (1..db.itemSeq) \ DOMAIN db.inventoryItems :
                 id \notin DOMAIN db'.inventoryItems
           /\ \A id \in (1..mem.itemSeq) \ DOMAIN mem.inventoryItems :
                 id \notin DOMAIN mem'.inventoryItems
         ]_vars

\* two items were created in a department and one of them was deleted; the
\* department counts the one that is left
C22_Witness ==
    /\ db.itemSeq = 2
    /\ \E j \in DOMAIN db.inventoryItems :
          /\ DOMAIN db.inventoryItems = {j}
          /\ HasDepartment(db, db.inventoryItems[j].departmentId)
          /\ db.departments[db.inventoryItems[j].departmentId].assetCount = 1
          /\ db.departments[db.inventoryItems[j].departmentId].capacityUsed = 10

-----------------------------------------------------------------------------
(* GET /api/activity with a query, and a run in which activity rows only   *)
(* are written                                                             *)

\* parseInt of a string of decimal digits
parseInt(s) == ParseDigits(s, 1, 0)

\* req.query.limit: absent (the empty string), or a number in decimal digits
QueryLimits == {<< >>} \cup {NumberToString(n) : n \in 0..(MaxActivity + 1)}

\* GET /api/activity: the rows returned
GetActivityLimit(st, user, queryLimit) ==
    getActivityLogsByCompany(st, user.companyId,
                             IF queryLimit # << >> THEN parseInt(queryLimit) ELSE 10)

\* an item handler of either tenant's admin writes its activity row (the
\* item rows left out); each row carries another item id
RecordActivity ==
    /\ Len(db.activityLogs) < MaxActivity
    /\ \E u \in {v \in UserIds : Users[v].role = "admin"} :
          LET logData == LogEntry("added", Len(db.activityLogs) + 1,
                                  [assetId |-> <<"X">>, name |-> "n1"], "General", Users[u])
          IN /\ db' = createActivityLog(db, logData)
             /\ mem' = Mem_createActivityLog(mem, logData).st
    /\ UNCHANGED reqs

NextActivity == RecordActivity

\* activity rows only are written
SpecActivity == Init /\ [][NextActivity]_vars

\* the positions of the tenant's rows in the table
RowsOf(st, companyId) ==
    {k \in DOMAIN st.activityLogs : st.activityLogs[k].companyId = companyId}

\* rows is the limit last written rows of the tenant, the last written first
MostRecent(rows, st, companyId, limit) ==
    /\ Len(rows) = IF Cardinality(RowsOf(st, companyId)) < limit
                   THEN Cardinality(RowsOf(st, companyId)) ELSE limit
    /\ \A n \in DOMAIN rows :
          \E k \in RowsOf(st, companyId) :
              /\ rows[n] = st.activityLogs[k]
              /\ Cardinality({j \in RowsOf(st, companyId) : j > k}) = n - 1

-----------------------------------------------------------------------------
(* C24: an update that changes the item's department id is recorded in the *)
(* activity log with action "transferred", an update that leaves the       *)
(* department id as it was with action "updated".                          *)
C24_DepartmentChangeLoggedAsTransferred ==
    [][ \A k \in DOMAIN db'.activityLogs \ DOMAIN db.activityLogs :
          LET row == db'.activityLogs[k]
          IN row.itemId \in DOMAIN db.inventoryItems \cap DOMAIN db'.inventoryItems
             => row.action =
                   IF db'.inventoryItems[row.itemId].departmentId
                         # db.inventoryItems[row.itemId].departmentId
                   THEN "transferred"
                   ELSE "updated"
      ]_vars

-----------------------------------------------------------------------------
\* what a call returns or throws, the store it leaves aside
Returned(outcome) == [error |-> outcome.error, result |-> outcome.result]

(* C25: MemStorage and DatabaseStorage are interchangeable: after the same *)
(* sequence of createCompany, createDepartment, createInventoryItem,       *)
(* updateInventoryItem, deleteInventoryItem and createActivityLog calls,   *)
(* made one after the other, both hold the same items with the same asset  *)
(* ids, the same tenant and department counters and the same activity      *)
(* entries, and every further call returns or throws the same on both.     *)
C25_StoragesInterchangeable ==
    /\ mem.inventoryItems = db.inventoryItems
    /\ mem.companies = db.companies
    /\ mem.departments = db.departments
    /\ mem.activityLogs = db.activityLogs
    /\ \A pattern \in {DefaultPattern, LiteralPattern} :
          Returned(Mem_createCompany(mem, [assetIdPattern |-> pattern]))
             = Returned(createCompanyOutcome(db, [assetIdPattern |-> pattern]))
    /\ \A c \in CompanyIds :
          Returned(Mem_createDepartment(mem, [name |-> "Ops", companyId |-> c]))
             = Returned(createDepartmentOutcome(db, [name |-> "Ops", companyId |-> c]))
    /\ \A itemData \in CalledItemData :
          Returned(Mem_createInventoryItem(mem, itemData))
             = Returned(createInventoryItemOrThrow(db, itemData))
    /\ \A id \in CalledItemIds :
          /\ Returned(Mem_deleteInventoryItem(mem, id))
                = Returned(deleteInventoryItemOrThrow(db, id))
          /\ \A data \in CalledUpdateData :
                Returned(Mem_updateInventoryItem(mem, id, data))
                   = Returned(updateInventoryItemOrThrow(db, id, data))
    /\ \A logData \in CalledLogData :
          Returned(Mem_createActivityLog(mem, logData))
             = Returned(createActivityLogOutcome(db, logData))

-----------------------------------------------------------------------------
\* the live items whose department is d
LiveItems(d) == {i \in DOMAIN db.inventoryItems : db.inventoryItems[i].departmentId = d}

(* C26: under any interleaving of concurrent item creations and deletions  *)
(* on one department, once all of them have completed the department's     *)
(* item count is its number of live items and its capacity-used 10 times   *)
(* that number: no increment or decrement is lost.                         *)
C26_NoLostCounterUpdate ==
    AllIdle
    => \A d \in DOMAIN db.departments :
          /\ db.departments[d].assetCount = Cardinality(LiveItems(d))
          /\ db.departments[d].capacityUsed = 10 * Cardinality(LiveItems(d))

\* the "removed" rows written for item i
RemovedRows(i) ==
    {k \in DOMAIN db.activityLogs :
        db.activityLogs[k].action = "removed" /\ db.activityLogs[k].itemId = i}

(* C27: of two deleteItem requests for the same item that run              *)
(* concurrently at most one succeeds: one "removed" activity row is        *)
(* written for the item, and its department's counters are taken down      *)
(* once, by 1 and by 10, so that once the requests have completed they     *)
(* count the live items.                                                   *)
C27_ConcurrentDeletesOnce ==
    /\ \A i \in 1..db.itemSeq : Cardinality(RemovedRows(i)) <= 1
    /\ AllIdle
       => \A d \in DOMAIN db.departments :
             /\ db.departments[d].assetCount = Cardinality(LiveItems(d))
             /\ db.departments[d].capacityUsed = 10 * Cardinality(LiveItems(d))

-----------------------------------------------------------------------------
\* the statuses of a request that is rejected
Rejections == {400, 401, 403, 404}

\* a rejection with that status, which leaves the store as it is
Rejected(r, status) == r.status = status /\ r.st = db

(* C28: a request that is rejected (no session; item not found; item of    *)
(* another tenant; employee without access to the department; employee     *)
(* deleting an item or creating a department; no department id, or a body  *)
(* that fails validation, on create) leaves the whole store unchanged.     *)
C28_RejectedRequestsChangeNothing ==
    /\ \A u \in UserIds :
          /\ \A body \in CreateBodies :
                Rejected(requireAuth(FALSE, db, PostInventory(db, Users[u], body)), 401)
          /\ \A id \in CalledItemIds, body \in MoveBodies :
                Rejected(requireAuth(FALSE, db, PutInventory(db, Users[u], id, body)), 401)
          /\ \A id \in CalledItemIds :
                Rejected(requireAuth(FALSE, db, DeleteInventory(db, Users[u], id)), 401)
          /\ \A body \in DepartmentBodies :
                Rejected(requireAuth(FALSE, db, PostDepartments(db, Users[u], body)), 401)
    /\ \A u \in UserIds :
        LET user == Users[u]
        IN /\ \A body \in CreateBodies :
                 LET r == requireAuth(TRUE, db, PostInventory(db, user, body))
                 IN /\ r.status \in Rejections => r.st = db
                    /\ body.departmentId = 0 => r.status = 400
                    /\ ( /\ body.departmentId # 0
                         /\ user.role = "employee"
                         /\ ~HasDepartmentAccess(db, u, body.departmentId) )
                       => r.status = 403
                    /\ ( /\ body.departmentId # 0
                         /\ user.role = "admin"
                         /\ ~InsertInventoryItemSchemaOk(body) )
                       => r.status = 400
           /\ \A id \in CalledItemIds, body \in MoveBodies :
                 LET r == requireAuth(TRUE, db, PutInventory(db, user, id, body))
                 IN /\ r.status \in Rejections => r.st = db
                    /\ ~HasInventoryItem(db, id) => r.status = 404
                    /\ ( /\ HasInventoryItem(db, id)
                         /\ \/ db.inventoryItems[id].companyId # user.companyId
                            \/ /\ user.role = "employee"
                               /\ ~HasDepartmentAccess(db, u, db.inventoryItems[id].departmentId) )
                       => r.status = 403
           /\ \A id \in CalledItemIds :
                 LET r == requireAuth(TRUE, db, DeleteInventory(db, user, id))
                 IN /\ r.status \in Rejections => r.st = db
                    /\ ~HasInventoryItem(db, id) => r.status = 404
                    /\ ( /\ HasInventoryItem(db, id)
                         /\ \/ db.inventoryItems[id].companyId # user.companyId
                            \/ user.role = "employee" )
                       => r.status = 403
           /\ \A body \in DepartmentBodies :
                 LET r == requireAuth(TRUE, db, PostDepartments(db, user, body))
                 IN /\ r.status \in Rejections => r.st = db
                    /\ user.role = "employee" => r.status = 403
                    /\ ( /\ user.role = "admin"
                         /\ ~InsertDepartmentSchemaOk(body) )
                       => r.status = 400

\* each tenant owns an item, and the employee belongs to a department other
\* than that of their tenant's item: every kind of rejection has its request
C28_Witness ==
    /\ \A c \in CompanyIds :
          \E i \in DOMAIN db.inventoryItems : db.inventoryItems[i].companyId = c
    /\ \E u \in UserIds, i \in DOMAIN db.inventoryItems :
          /\ Users[u].role = "employee"
          /\ db.inventoryItems[i].companyId = Users[u].companyId
          /\ \E ud \in db.userDepartments : ud.userId = u
          /\ ~HasDepartmentAccess(db, u, db.inventoryItems[i].departmentId)

\* what tenant c owns in store st: its items, its departments with their
\* counters, its asset counter and its activity entries
RowsOwned(st, c) ==
    [ inventoryItems |-> {<<i, st.inventoryItems[i]>> : i \in
                             {j \in DOMAIN st.inventoryItems :
                                 st.inventoryItems[j].companyId = c}},
      departments |-> {<<d, st.departments[d]>> : d \in
                          {e \in DOMAIN st.departments :
                              st.departments[e].companyId = c}},
      currentAssetId |-> st.companies[c].currentAssetId,
      activityLogs |-> SelectSeq(st.activityLogs, LAMBDA row : row.companyId = c) ]

\* the request leaves what every tenant other than the caller's owns as it was
LeavesOtherTenants(user, r) ==
    \A c \in CompanyIds \ {user.companyId} : RowsOwned(r.st, c) = RowsOwned(db, c)

(* C29: no createItem, updateItem, deleteItem or createDepartment issued by *)
(* a caller of one tenant, whatever departmentId, companyId and id the      *)
(* request names, changes a row of another tenant or makes a row appear in  *)
(* or disappear from the other tenant's items, departments, asset counter   *)
(* or activity entries.                                                     *)
C29_WritesLeaveOtherTenants ==
    \A u \in UserIds :
        LET user == Users[u]
        IN /\ \A body \in CreateBodies :
                 LeavesOtherTenants(user, PostInventory(db, user, body))
           /\ \A id \in ItemIds, body \in MoveBodies :
                 LeavesOtherTenants(user, PutInventory(db, user, id, body))
           /\ \A id \in ItemIds :
                 LeavesOtherTenants(user, DeleteInventory(db, user, id))
           /\ \A body \in DepartmentBodies :
                 LeavesOtherTenants(user, PostDepartments(db, user, body))

\* the departments user u holds a membership for
MembershipSet(u) == {ud.departmentId : ud \in {x \in db.userDepartments : x.userId = u}}

(* C30: after a createItem or updateItem issued by an employee that         *)
(* succeeds, the department id of the item created or updated is one of     *)
(* the departments the employee holds a membership for.                     *)
C30_EmployeeItemsStayInMembership ==
    \A u \in {e \in UserIds : Users[e].role = "employee"} :
        /\ \A body \in CreateBodies :
              LET r == PostInventory(db, Users[u], body)
              IN r.status = 201
                 => r.st.inventoryItems[r.st.itemSeq].departmentId \in MembershipSet(u)
        /\ \A id \in ItemIds, body \in MoveBodies :
              LET r == PutInventory(db, Users[u], id, body)
              IN r.status = 200
                 => r.st.inventoryItems[id].departmentId \in MembershipSet(u)

====
